---- MODULE Spec2Model ----
(***************************************************************************)
(* Affine dialect: value legality (dimension / symbol) and composition of  *)
(* affine maps with their operands.                                        *)
(*                                                                         *)
(* The IR is an arena.  Regions are numbered 1..MaxDepth and nested as a    *)
(* chain: the operation owning region r+1 sits directly in region r, the   *)
(* operation owning region 1 sits in no region.  Region 0 is the null      *)
(* Region* .  Values are numbered by their position in ir.vals; a value is *)
(* a block argument or the single result of an operation.                  *)
(***************************************************************************)
EXTENDS Integers, Sequences, FiniteSets, TLC

VARIABLES ir, call, input, pc, map, operands, dims, syms

\* The state of a composition in progress.
composing == <<input, pc, map, operands, dims, syms>>

vars == <<ir, call, composing>>

\* ------------------------------------------------------------------ bounds
MaxDepth == 3
MaxArgs == 2
MaxOperands == 2
MaxResults == 2
\* The width in bits of the integers of the loop bounds, for the 64 of int64_t.
IntBits == 5
\* The constants of the bounds of a loop are -MaxBound..MaxBound, its step is
\* one of 1..MaxBound.
MaxBound == 3
\* The calls of composeAffineMapAndOperands by one call of
\* fullyComposeAffineMapAndOperands are counted up to MaxInvocations.
MaxInvocations == 2

\* --------------------------------------------------------------- the arena
NullRegion == 0

Regions == 1..MaxDepth

RegionsOrNull == 0..MaxDepth

\* Kinds of region-holding operations, told apart by what the code reads of
\* them: the AffineScope trait, the IsIsolatedFromAbove trait, and
\* isa<AffineForOp, AffineParallelOp>.  "for" is an affine.for (an
\* affine.parallel is read by the very same isa<> test); "other" stands for
\* every region holder with neither trait that is no affine loop
\* (affine.if, scf.for...).  "none": the region has no parent operation
\* (it is not attached yet).
OwnerKinds == {"func", "scope", "iso", "for", "other"}

hasAffineScope(k) == k \in {"func", "scope"}

hasIsIsolatedFromAbove(k) == k \in {"func", "iso"}

isAffineForOrParallel(k) == k = "for"

\* Kinds of values.  "arg" is a block argument; the others name the
\* operation defining the value.
MemRefDefKinds == {"alloc", "view", "subview"}

NoOperands == << >>

\* Affine expressions are trees: <<"d", i>> dimension i, <<"s", i>> symbol i,
\* <<"c", n>> the constant n, <<"+", l, r>> and <<"*", l, r>>.
AffineDimExpr(i) == <<"d", i>>

AffineSymbolExpr(i) == <<"s", i>>

AffineConstantExpr(n) == <<"c", n>>

NoExpr == AffineConstantExpr(0)

Arg(r, n, ix) ==
    [kind |-> "arg", at |-> r, argNo |-> n, isIndex |-> ix,
     operands |-> NoOperands, numDims |-> 0, idx |-> "none",
     expr |-> NoExpr, cst |-> 0]

Op(k, r, ix, opnds) ==
    [kind |-> k, at |-> r, argNo |-> 0, isIndex |-> ix,
     operands |-> opnds, numDims |-> 0, idx |-> "none",
     expr |-> NoExpr, cst |-> 0]

\* An affine.apply: its map has nd dimensions, Len(opnds) - nd symbols and
\* the single result e.
ApplyOf(r, opnds, nd, e) ==
    [kind |-> "apply", at |-> r, argNo |-> 0, isIndex |-> TRUE,
     operands |-> opnds, numDims |-> nd, idx |-> "none",
     expr |-> e, cst |-> 0]

Apply(r, opnds, nd) == ApplyOf(r, opnds, nd, NoExpr)

\* A constant of index type with value n.
Constant(r, n) ==
    [kind |-> "const", at |-> r, argNo |-> 0, isIndex |-> TRUE,
     operands |-> NoOperands, numDims |-> 0, idx |-> "none",
     expr |-> NoExpr, cst |-> n]

\* idx: "nonconst" (the index operand of the dim is no constant), "static" /
\* "dynamic" (constant index naming a static / dynamic dimension).
Dim(r, mem, i) ==
    [kind |-> "dim", at |-> r, argNo |-> 0, isIndex |-> TRUE,
     operands |-> <<mem>>, numDims |-> 0, idx |-> i,
     expr |-> NoExpr, cst |-> 0]

Val(v) == ir.vals[v]

isBlockArgument(v) == Val(v).kind = "arg"

\* Region::getParentOp(): 0 when the region is null or unattached, otherwise
\* the owner, named by the number of the region it holds.
RegionParentOp(r) == IF r = NullRegion \/ ir.own[r] = "none" THEN 0 ELSE r

\* Operation::getParentRegion() of the operation holding region r.
OwnerParentRegion(r) == r - 1

OwnerKind(o) == ir.own[o]

\* Value's parent region: arg.getParentRegion() or defOp->getParentRegion().
ParentRegion(v) == Val(v).at

\* arg.getOwner()->getParentOp() or defOp->getParentOp().
ParentOp(v) == RegionParentOp(Val(v).at)

\* ------------------------------------------------------- legality queries
\* A query returns "true" or "false", or ends in "fault": a failed assert
\* (or, with asserts compiled out, the null dereference behind it).
B(b) == IF b THEN "true" ELSE "false"

\* (mutant) a value defined anywhere beneath `region` counts as top-level.
isTopLevelValueInNested(v, region) == ParentRegion(v) >= region

\* static isTopLevelValue(Value, Region *), called with region non-null.
isTopLevelValueIn(v, region) == ParentRegion(v) = region

\* mlir::isTopLevelValue(Value)
isTopLevelValue(v) ==
    LET parentOp == ParentOp(v)
    IN  parentOp # 0 /\ hasAffineScope(OwnerKind(parentOp))

RECURSIVE isValidSymbol(_, _)
RECURSIVE isValidDim(_, _)
RECURSIVE allValidSymbol(_, _, _)
RECURSIVE allValidDim(_, _, _)

\* llvm::all_of(operands, isValidSymbol(., region)): stops at the first
\* operand that is no valid symbol.
allValidSymbol(opnds, i, region) ==
    IF i > Len(opnds) THEN "true"
    ELSE LET x == isValidSymbol(opnds[i], region)
         IN  IF x = "true" THEN allValidSymbol(opnds, i + 1, region) ELSE x

allValidDim(opnds, i, region) ==
    IF i > Len(opnds) THEN "true"
    ELSE LET x == isValidDim(opnds[i], region)
         IN  IF x = "true" THEN allValidDim(opnds, i + 1, region) ELSE x

\* (mutant) only the symbol operands are asked.
ApplyIsValidSymbolOfSyms(v, region) ==
    allValidSymbol(SubSeq(Val(v).operands, Val(v).numDims + 1,
                          Len(Val(v).operands)), 1, region)

\* AffineApplyOp::isValidSymbol(Region *)
ApplyIsValidSymbol(v, region) == allValidSymbol(Val(v).operands, 1, region)

\* (mutant) only the dimension operands are asked.
ApplyIsValidDimOfDims(v, region) ==
    allValidDim(SubSeq(Val(v).operands, 1, Val(v).numDims), 1, region)

\* AffineApplyOp::isValidDim(Region *)
ApplyIsValidDim(v, region) == allValidDim(Val(v).operands, 1, region)

\* (mutant) a static size is refused.
isMemRefSizeValidSymbolDynOnly(memrefDef, index, region) ==
    IF index # "dynamic" THEN "false"
    ELSE isValidSymbol(Val(memrefDef).operands[1], region)

\* isMemRefSizeValidSymbol(memrefDefOp, index, region); index is the
\* queried dimension, known here only as static or dynamic.
isMemRefSizeValidSymbol(memrefDef, index, region) ==
    IF index # "dynamic" THEN "true"
    ELSE isValidSymbol(Val(memrefDef).operands[1], region)

\* isDimOpValidSymbol(DimOp, Region *)
isDimOpValidSymbol(v, region) ==
    LET memref == Val(v).operands[1]
    IN  IF isTopLevelValue(memref) THEN "true"
        ELSE IF isBlockArgument(memref) THEN "false"
        ELSE IF Val(v).idx = "nonconst" THEN "fault"
        ELSE IF Val(memref).kind \in MemRefDefKinds
             THEN isMemRefSizeValidSymbol(memref, Val(v).idx, region)
        ELSE "false"

\* The region a value may still dominate from: the parent region of
\* `region`'s parent op, unless that op is isolated from above (0: none).
\* (mutant) the isolated-from-above trait is not looked at.
EnclosingRegionAnyOwner(region) ==
    LET regionOp == RegionParentOp(region)
    IN  IF regionOp # 0 THEN OwnerParentRegion(regionOp) ELSE NullRegion

\* (mutant) no walk to the enclosing region at all.
EnclosingRegionNever(region) == NullRegion

EnclosingRegion(region) ==
    LET regionOp == RegionParentOp(region)
    IN  IF regionOp # 0 /\ ~hasIsIsolatedFromAbove(OwnerKind(regionOp))
        THEN OwnerParentRegion(regionOp)
        ELSE NullRegion

\* mlir::isValidSymbol(Value, Region *)
isValidSymbol(v, region) ==
    IF ~Val(v).isIndex THEN "false"
    ELSE IF region # NullRegion /\ isTopLevelValueIn(v, region) THEN "true"
    ELSE IF isBlockArgument(v)
         THEN IF EnclosingRegion(region) # NullRegion
              THEN isValidSymbol(v, EnclosingRegion(region))
              ELSE "false"
    ELSE IF Val(v).kind = "const" THEN "true"
    ELSE IF Val(v).kind = "apply" THEN ApplyIsValidSymbol(v, region)
    ELSE IF Val(v).kind = "dim" THEN isDimOpValidSymbol(v, region)
    ELSE IF EnclosingRegion(region) # NullRegion
         THEN isValidSymbol(v, EnclosingRegion(region))
         ELSE "false"

\* (mutant) the symbol shortcut is missing.
isValidDimNoSymbol(v, region) ==
    IF ~Val(v).isIndex THEN "false"
    ELSE IF isBlockArgument(v)
         THEN IF ParentOp(v) = 0 THEN "fault"
              ELSE B(isAffineForOrParallel(OwnerKind(ParentOp(v))))
    ELSE IF Val(v).kind = "apply" THEN ApplyIsValidDim(v, region)
    ELSE IF Val(v).kind = "dim" THEN B(isTopLevelValue(Val(v).operands[1]))
    ELSE "false"

\* mlir::isValidDim(Value, Region *)
isValidDim(v, region) ==
    IF ~Val(v).isIndex THEN "false"
    ELSE LET sym == isValidSymbol(v, region)
         IN  IF sym # "false" THEN sym
             ELSE IF isBlockArgument(v)
                  THEN IF ParentOp(v) = 0 THEN "fault"
                       ELSE B(isAffineForOrParallel(OwnerKind(ParentOp(v))))
             ELSE IF Val(v).kind = "apply" THEN ApplyIsValidDim(v, region)
             ELSE IF Val(v).kind = "dim"
                  THEN B(isTopLevelValue(Val(v).operands[1]))
             ELSE "false"

\* Operation *getAffineScope(op), for the operation defining v: the closest
\* region around it held by an operation with the AffineScope trait.
RECURSIVE AffineScopeFrom(_)
AffineScopeFrom(r) ==
    IF RegionParentOp(r) = 0 THEN NullRegion
    ELSE IF hasAffineScope(OwnerKind(RegionParentOp(r))) THEN r
    ELSE AffineScopeFrom(OwnerParentRegion(r))

getAffineScope(v) == AffineScopeFrom(ParentRegion(v))

\* mlir::isValidSymbol(Value)
isValidSymbolAnywhere(v) ==
    IF ~Val(v).isIndex THEN "false"
    ELSE IF isTopLevelValue(v) THEN "true"
    ELSE IF ~isBlockArgument(v) THEN isValidSymbol(v, getAffineScope(v))
    ELSE "false"

\* ------------------------------------------------------ affine expressions
isConstantExpr(e) == e[1] = "c"

\* AffineExpr::operator+ : constants fold, a constant goes to the right,
\* adding zero changes nothing.
AffineAdd(l, r) ==
    IF isConstantExpr(l) /\ isConstantExpr(r) THEN AffineConstantExpr(l[2] + r[2])
    ELSE IF isConstantExpr(l)
         THEN IF l[2] = 0 THEN r ELSE <<"+", r, l>>
    ELSE IF isConstantExpr(r) /\ r[2] = 0 THEN l
    ELSE <<"+", l, r>>

\* AffineExpr::operator* : constants fold, a constant goes to the right,
\* times one changes nothing, times zero is zero.
AffineMul(l, r) ==
    LET a == IF isConstantExpr(l) THEN r ELSE l
        b == IF isConstantExpr(l) THEN l ELSE r
    IN  IF isConstantExpr(a) /\ isConstantExpr(b) THEN AffineConstantExpr(a[2] * b[2])
        ELSE IF isConstantExpr(b) /\ b[2] = 1 THEN a
        ELSE IF isConstantExpr(b) /\ b[2] = 0 THEN b
        ELSE <<"*", a, b>>

AffineBinary(op, l, r) == IF op = "+" THEN AffineAdd(l, r) ELSE AffineMul(l, r)

RECURSIVE replaceExpr(_, _, _)
\* AffineExpr::replace(expr, replacement)
replaceExpr(e, target, replacement) ==
    IF e = target THEN replacement
    ELSE IF e[1] \in {"+", "*"}
         THEN AffineBinary(e[1], replaceExpr(e[2], target, replacement),
                                 replaceExpr(e[3], target, replacement))
    ELSE e

RECURSIVE replaceDimsAndSymbolsExpr(_, _, _)
\* AffineExpr::replaceDimsAndSymbols(dimReplacements, symReplacements):
\* a position past the end of its list stays as it is.
replaceDimsAndSymbolsExpr(e, dimRepl, symRepl) ==
    IF e[1] = "d" THEN IF e[2] < Len(dimRepl) THEN dimRepl[e[2] + 1] ELSE e
    ELSE IF e[1] = "s" THEN IF e[2] < Len(symRepl) THEN symRepl[e[2] + 1] ELSE e
    ELSE IF e[1] = "c" THEN e
    ELSE AffineBinary(e[1], replaceDimsAndSymbolsExpr(e[2], dimRepl, symRepl),
                            replaceDimsAndSymbolsExpr(e[3], dimRepl, symRepl))

RECURSIVE shiftExpr(_, _, _)
\* AffineMap::shiftDims(nd).shiftSymbols(ns), on one result.
shiftExpr(e, nd, ns) ==
    IF e[1] = "d" THEN AffineDimExpr(e[2] + nd)
    ELSE IF e[1] = "s" THEN AffineSymbolExpr(e[2] + ns)
    ELSE IF e[1] = "c" THEN e
    ELSE <<e[1], shiftExpr(e[2], nd, ns), shiftExpr(e[3], nd, ns)>>

RECURSIVE isFunctionOf(_, _)
\* AffineExpr::isFunctionOfDim / isFunctionOfSymbol
isFunctionOf(e, leaf) ==
    IF e[1] \in {"+", "*"}
    THEN isFunctionOf(e[2], leaf) \/ isFunctionOf(e[3], leaf)
    ELSE e = leaf

\* An affine map: numDims, numSymbols and the sequence of its results.
AffineMap(nd, ns, res) == [numDims |-> nd, numSymbols |-> ns, results |-> res]

mapIsFunctionOf(m, leaf) ==
    \E i \in 1..Len(m.results) : isFunctionOf(m.results[i], leaf)

\* AffineMap::replace(expr, replacement, numResultDims, numResultSyms)
replaceInMap(m, target, replacement, nd, ns) ==
    AffineMap(nd, ns,
              [i \in 1..Len(m.results) |->
                  replaceExpr(m.results[i], target, replacement)])

\* AffineMap::replaceDimsAndSymbols(dimRepl, symRepl, numResultDims,
\* numResultSyms)
replaceDimsAndSymbols(m, dimRepl, symRepl, nd, ns) ==
    AffineMap(nd, ns,
              [i \in 1..Len(m.results) |->
                  replaceDimsAndSymbolsExpr(m.results[i], dimRepl, symRepl)])

RECURSIVE dropDuplicates(_)
dropDuplicates(res) ==
    IF res = << >> THEN << >>
    ELSE LET front == dropDuplicates(SubSeq(res, 1, Len(res) - 1))
             last == res[Len(res)]
         IN  IF \E i \in 1..Len(front) : front[i] = last
             THEN front ELSE Append(front, last)

\* simplifyAffineMap: duplicate results are removed; constants are folded
\* when an expression is built.
simplifyAffineMap(m) ==
    AffineMap(m.numDims, m.numSymbols, dropDuplicates(m.results))

\* ----------------------------------------- composition, canonicalization
\* The positions of 1..Len(f) where f holds, in order, and the number of
\* them up to n.
Where(f) == SelectSeq([i \in 1..Len(f) |-> i], LAMBDA i : f[i])

Count(f, n) == Cardinality({i \in 1..n : f[i]})

\* matchPattern(v, m_Constant())
isConstant(v) == v # 0 /\ Val(v).kind = "const"

isApplyResult(v) == v # 0 /\ Val(v).kind = "apply"

\* canonicalizePromotedSymbols, lines 727-752: promoted[i] tells whether the
\* operand of dimension i is a valid symbol.
remapPromotedSymbols(m, opnds, promoted) ==
    LET nd == m.numDims
        kept == [i \in 1..nd |-> ~promoted[i]]
        keptDims == Where(kept)
        remappedSymbols == Where(promoted)
    IN  [map |-> replaceDimsAndSymbols(m,
                     [i \in 1..nd |->
                         IF promoted[i]
                         THEN AffineSymbolExpr(m.numSymbols + Count(promoted, i - 1))
                         ELSE AffineDimExpr(Count(kept, i - 1))],
                     << >>, Len(keptDims), m.numSymbols + Len(remappedSymbols)),
         operands |->
             [i \in 1..Len(keptDims) |-> opnds[keptDims[i]]]
                 \o SubSeq(opnds, nd + 1, Len(opnds))
                 \o [i \in 1..Len(remappedSymbols) |-> opnds[remappedSymbols[i]]]]

\* A constant, or the result of an apply whose operands are all such: a
\* symbol whatever the place of its definition.
RECURSIVE scopeFreeSymbol(_)
scopeFreeSymbol(v) ==
    \/ isConstant(v)
    \/ /\ isApplyResult(v)
       /\ \A i \in 1..Len(Val(v).operands) : scopeFreeSymbol(Val(v).operands[i])

\* (mutant) only the operands that are symbols wherever they are defined are
\* promoted.
canonicalizePromotedScopeFree(m, opnds) ==
    IF Len(opnds) = 0 THEN [map |-> m, operands |-> opnds]
    ELSE remapPromotedSymbols(m, opnds,
             [i \in 1..m.numDims |-> scopeFreeSymbol(opnds[i])])

\* canonicalizePromotedSymbols(mapOrSet, operands)
canonicalizePromotedSymbols(m, opnds) ==
    IF Len(opnds) = 0 THEN [map |-> m, operands |-> opnds]
    ELSE remapPromotedSymbols(m, opnds,
             [i \in 1..m.numDims |-> isValidSymbolAnywhere(opnds[i]) = "true"])

\* (mutant) no operand is found among the ones seen.
seenBeforeNever(use, opnds) ==
    [i \in 1..Len(use) |-> IF use[i] THEN i ELSE 0]

\* The first position j <= i with use[j] bound to the operand of position i.
firstSeen(use, opnds, i) ==
    CHOOSE j \in 1..i : /\ use[j] /\ opnds[j] = opnds[i]
                        /\ \A k \in 1..(j - 1) : ~(use[k] /\ opnds[k] = opnds[i])

\* For each position in use, the first position bound to the same operand
\* (0 for the positions not in use).
seenBefore(use, opnds) ==
    [i \in 1..Len(use) |-> IF use[i] THEN firstSeen(use, opnds, i) ELSE 0]

\* (mutant) an operand seen before is pushed again.
remapUsedKeepingDuplicates(m, dimOperands, symOperands, usedDims, symVar, seenDims, seenSymbols) ==
    LET newDim == [i \in 1..m.numDims |-> seenDims[i] = i]
        newSym == [i \in 1..m.numSymbols |-> seenSymbols[i] = i]
        newDims == Where(usedDims)
        newSyms == Where(symVar)
    IN  [map |-> replaceDimsAndSymbols(m,
                     [i \in 1..m.numDims |->
                         IF usedDims[i]
                         THEN AffineDimExpr(Count(newDim, seenDims[i] - 1))
                         ELSE NoExpr],
                     [i \in 1..m.numSymbols |->
                         IF symVar[i]
                         THEN AffineSymbolExpr(Count(newSym, seenSymbols[i] - 1))
                         ELSE IF isConstant(symOperands[i])
                              THEN AffineConstantExpr(Val(symOperands[i]).cst)
                         ELSE NoExpr],
                     Count(newDim, m.numDims), Count(newSym, m.numSymbols)),
         operands |->
             [i \in 1..Len(newDims) |-> dimOperands[newDims[i]]]
                 \o [i \in 1..Len(newSyms) |-> symOperands[newSyms[i]]]]

\* canonicalizeMapOrSetAndOperands, lines 780-830: usedDims are the
\* dimensions the map names, symVar the symbols it names whose operand is no
\* constant; a symbol it names whose operand is a constant becomes that
\* constant.  The replacement of a position the map does not name is never
\* read.
remapUsed(m, dimOperands, symOperands, usedDims, symVar, seenDims, seenSymbols) ==
    LET newDim == [i \in 1..m.numDims |-> seenDims[i] = i]
        newSym == [i \in 1..m.numSymbols |-> seenSymbols[i] = i]
        newDims == Where(newDim)
        newSyms == Where(newSym)
    IN  [map |-> replaceDimsAndSymbols(m,
                     [i \in 1..m.numDims |->
                         IF usedDims[i]
                         THEN AffineDimExpr(Count(newDim, seenDims[i] - 1))
                         ELSE NoExpr],
                     [i \in 1..m.numSymbols |->
                         IF symVar[i]
                         THEN AffineSymbolExpr(Count(newSym, seenSymbols[i] - 1))
                         ELSE IF isConstant(symOperands[i])
                              THEN AffineConstantExpr(Val(symOperands[i]).cst)
                         ELSE NoExpr],
                     Len(newDims), Len(newSyms)),
         operands |->
             [i \in 1..Len(newDims) |-> dimOperands[newDims[i]]]
                 \o [i \in 1..Len(newSyms) |-> symOperands[newSyms[i]]]]

\* (mutant) every dimension and every symbol counts as named.
canonicalizeUsedOrNot(m, dimOperands, symOperands) ==
    LET usedDims == [i \in 1..m.numDims |-> TRUE]
        symVar == [i \in 1..m.numSymbols |-> ~isConstant(symOperands[i])]
    IN  remapUsed(m, dimOperands, symOperands, usedDims, symVar,
                  seenBefore(usedDims, dimOperands),
                  seenBefore(symVar, symOperands))

\* (mutant) a symbol bound to a constant is kept like any other.
canonicalizeUsedConstants(m, dimOperands, symOperands) ==
    LET usedDims == [i \in 1..m.numDims |->
                        mapIsFunctionOf(m, AffineDimExpr(i - 1))]
        symVar == [i \in 1..m.numSymbols |->
                      mapIsFunctionOf(m, AffineSymbolExpr(i - 1))]
    IN  remapUsed(m, dimOperands, symOperands, usedDims, symVar,
                  seenBefore(usedDims, dimOperands),
                  seenBefore(symVar, symOperands))

\* canonicalizeMapOrSetAndOperands, lines 770-778: what the map names.
canonicalizeUsed(m, dimOperands, symOperands) ==
    LET usedDims == [i \in 1..m.numDims |->
                        mapIsFunctionOf(m, AffineDimExpr(i - 1))]
        symVar == [i \in 1..m.numSymbols |->
                      /\ mapIsFunctionOf(m, AffineSymbolExpr(i - 1))
                      /\ ~isConstant(symOperands[i])]
    IN  remapUsed(m, dimOperands, symOperands, usedDims, symVar,
                  seenBefore(usedDims, dimOperands),
                  seenBefore(symVar, symOperands))

\* The map and operands canonicalizePromotedSymbols left, the operands split
\* at the map's number of dimensions.
splitOperands(p) ==
    canonicalizeUsed(p.map, SubSeq(p.operands, 1, p.map.numDims),
                     SubSeq(p.operands, p.map.numDims + 1, Len(p.operands)))

\* canonicalizeMapOrSetAndOperands(mapOrSet, operands)
canonicalizeMapOrSetAndOperands(m, opnds) ==
    IF Len(opnds) = 0 THEN [map |-> m, operands |-> opnds]
    ELSE splitOperands(canonicalizePromotedSymbols(m, opnds))

\* ------------------------------------------------------------ the inputs
Skeletons ==
    {o \in [Regions -> OwnerKinds \cup {"none"}] :
        \A r \in Regions : r > 1 => o[r] # "none"}

\* An operation in region u may use a value of region d when d encloses u
\* (or is u) and no operation isolated from above lies between them; an
\* unattached operation uses unattached values.
CanUse(own, d, u) ==
    IF d = 0 THEN u = 0
    ELSE d <= u /\ \A k \in (d + 1)..u : ~hasIsIsolatedFromAbove(own[k])

ArgNos == 0..(MaxArgs - 1)

IndexArgs == {Arg(r, n, TRUE) : r \in RegionsOrNull, n \in ArgNos}

FirstArgs == {Arg(r, 0, TRUE) : r \in RegionsOrNull}

IndexOps ==
    {Op(k, r, TRUE, NoOperands) : k \in {"const", "other"}, r \in RegionsOrNull}

OtherLeaves ==
    {Arg(r, MaxArgs - 1, FALSE) : r \in RegionsOrNull}
        \cup {Op("other", r, FALSE, NoOperands) : r \in RegionsOrNull}

LeafClusters == {<<l>> : l \in IndexArgs \cup IndexOps \cup OtherLeaves}

\* A dim of a memref that is a block argument, the result of some other
\* operation, or of an alloc / view / subview whose size operand (if it has
\* one) is a block argument or a constant.
DimClusters ==
    {<<m, Dim(u, 1, i)>> :
        m \in {Arg(r, MaxArgs - 1, FALSE) : r \in RegionsOrNull}
                \cup {Op(k, r, FALSE, NoOperands) :
                        k \in {"other", "alloc"}, r \in RegionsOrNull},
        u \in RegionsOrNull, i \in {"nonconst", "static"}}
    \cup
    {<<Op(k, r, FALSE, NoOperands), Dim(r, 1, i)>> :
        k \in {"view", "subview"}, r \in RegionsOrNull,
        i \in {"nonconst", "static"}}
    \cup
    UNION {{<<s, Op(k, r, FALSE, <<1>>), Dim(r, 2, "dynamic")>> :
                s \in FirstArgs \cup {Op("const", r, TRUE, NoOperands)},
                k \in MemRefDefKinds} : r \in RegionsOrNull}

\* An apply of one or two operands, each a block argument, a constant, the
\* result of some other operation, of a dim or of another apply.
ApplyClusters ==
    {<<l, Apply(u, <<1>>, nd)>> :
        l \in IndexArgs \cup IndexOps, u \in RegionsOrNull, nd \in 0..1}
    \cup
    UNION {{<<l1, l2, Apply(u, <<1, 2>>, 1)>> :
                l1 \in FirstArgs,
                l2 \in FirstArgs \cup {Op("const", u, TRUE, NoOperands)}} :
           u \in RegionsOrNull}
    \cup
    {<<Op("other", r, FALSE, NoOperands), Dim(r, 1, i), Apply(u, <<2>>, 1)>> :
        r \in RegionsOrNull, u \in RegionsOrNull, i \in {"nonconst", "static"}}
    \cup
    {<<l, Apply(r, <<1>>, 1), Apply(u, <<2>>, 0)>> :
        l \in FirstArgs, r \in RegionsOrNull, u \in RegionsOrNull}

\* Every operand is defined before its user and in a region enclosing it.
WellFormed(own, vs) ==
    \A v \in 1..Len(vs) : \A i \in 1..Len(vs[v].operands) :
        LET o == vs[v].operands[i]
        IN  /\ o < v
            /\ CanUse(own, vs[o].at, vs[v].at)

Clusters == LeafClusters \cup DimClusters \cup ApplyClusters

IRs ==
    {x \in [own : Skeletons, vals : Clusters] : WellFormed(x.own, x.vals)}

NoCall == [fn |-> "none", v |-> 0, region |-> 0, ret |-> "none"]

NoMap == [numDims |-> 0, numSymbols |-> 0, results |-> << >>]

NoInput == [fn |-> "none", map |-> NoMap, operands |-> << >>]

Idle ==
    /\ input = NoInput
    /\ pc = "idle"
    /\ map = NoMap
    /\ operands = << >>
    /\ dims = << >>
    /\ syms = << >>

Init ==
    /\ ir \in IRs
    /\ call = NoCall
    /\ Idle

\* The value queried: the last one of the IR; the others are what it is
\* computed from.  The queries are pure, so one call is made per IR.
Queried == Len(ir.vals)

CallIsValidDim(region) ==
    /\ call = NoCall
    /\ call' = [fn |-> "isValidDim", v |-> Queried, region |-> region,
                ret |-> isValidDim(Queried, region)]
    /\ UNCHANGED <<ir, composing>>

CallIsValidSymbol(region) ==
    /\ call = NoCall
    /\ call' = [fn |-> "isValidSymbol", v |-> Queried, region |-> region,
                ret |-> isValidSymbol(Queried, region)]
    /\ UNCHANGED <<ir, composing>>

Next ==
    \E region \in RegionsOrNull :
        \/ CallIsValidDim(region)
        \/ CallIsValidSymbol(region)

Spec == Init /\ [][Next]_vars

\* ------------------------------------------------- composing, step by step
\* The IR maps are composed over: a function whose body holds an affine.for
\* nest.  Value 1 is an argument of the function or a constant, value 2 the
\* induction variable of the outermost loop, value 3 an apply in the
\* outermost loop over those and value 4 an apply in the innermost loop over
\* all of them.
ComposeSkeleton == [r \in Regions |-> IF r = 1 THEN "func" ELSE "for"]

\* value 3: the sum of the induction variable and value 1 as a symbol, or
\* the double of value 1 as a dimension.
OuterApplies ==
    <<ApplyOf(2, <<2, 1>>, 1, AffineAdd(AffineDimExpr(0), AffineSymbolExpr(0))),
      ApplyOf(2, <<1>>, 1, AffineMul(AffineDimExpr(0), AffineConstantExpr(2)))>>

\* value 4: a sum of value 3 and the induction variable, or of value 3 and
\* itself.
InnerApplies ==
    <<ApplyOf(MaxDepth, <<3, 2>>, 2, AffineAdd(AffineDimExpr(0), AffineDimExpr(1))),
      ApplyOf(MaxDepth, <<2, 3>>, 1, AffineAdd(AffineDimExpr(0), AffineSymbolExpr(0))),
      ApplyOf(MaxDepth, <<3, 3>>, 1, AffineAdd(AffineDimExpr(0), AffineSymbolExpr(0)))>>

ComposeIRs ==
    {[own |-> ComposeSkeleton,
      vals |-> <<t[1], Arg(2, 0, TRUE), OuterApplies[t[2]], InnerApplies[t[3]]>>] :
        t \in {<<Arg(1, 0, TRUE), 1, 1>>, <<Arg(1, 0, TRUE), 2, 2>>,
               <<Constant(2, 3), 1, 3>>, <<Constant(2, 3), 2, 1>>}}

\* One of them: value 4 is the sum of value 3 and the induction variable,
\* value 3 the sum of the induction variable and the parameter of the function.
NestedAppliesIR ==
    [own |-> ComposeSkeleton,
     vals |-> <<Arg(1, 0, TRUE), Arg(2, 0, TRUE), OuterApplies[1], InnerApplies[1]>>]

\* Two nested loops, values 1 and 2 their induction variables; value 3 is
\* the double of the outer one and value 4 the inner one plus one.
TwoLoopsIR ==
    [own |-> ComposeSkeleton,
     vals |-> <<Arg(2, 0, TRUE), Arg(MaxDepth, 0, TRUE),
                ApplyOf(MaxDepth, <<1>>, 1,
                        AffineMul(AffineDimExpr(0), AffineConstantExpr(2))),
                ApplyOf(MaxDepth, <<2>>, 1,
                        AffineAdd(AffineDimExpr(0), AffineConstantExpr(1)))>>]

\* The maps handed in: nd dimensions and ns symbols; the first result is an
\* input, the double of one, the sum of two or a constant, the results after
\* it all repeat the first one or all name the last input.
Inputs(nd, ns) ==
    {AffineDimExpr(i) : i \in 0..(nd - 1)}
        \cup {AffineSymbolExpr(i) : i \in 0..(ns - 1)}

InputList(nd, ns) ==
    [i \in 1..(nd + ns) |->
        IF i <= nd THEN AffineDimExpr(i - 1) ELSE AffineSymbolExpr(i - nd - 1)]

FirstResults(nd, ns) ==
    Inputs(nd, ns)
        \cup {AffineMul(e, AffineConstantExpr(2)) : e \in Inputs(nd, ns)}
        \cup {AffineAdd(InputList(nd, ns)[i], InputList(nd, ns)[j]) :
                i \in 1..(nd + ns), j \in 2..(nd + ns)}
        \cup {AffineConstantExpr(1)}

ResultLists(nd, ns) ==
    {<< >>} \cup
    UNION {{[i \in 1..n |-> IF i = 1 \/ same THEN e
                            ELSE IF nd + ns = 0 THEN AffineConstantExpr(0)
                            ELSE InputList(nd, ns)[nd + ns]] :
                e \in FirstResults(nd, ns), same \in BOOLEAN} :
           n \in 1..MaxResults}

Maps(n) ==
    UNION {{AffineMap(nd, n - nd, res) : res \in ResultLists(nd, n - nd)} :
           nd \in 0..n}

OperandLists(n) == [1..n -> 1..Len(ir.vals)]

\* replaceDimOrSym succeeds at position pos (counted from 0 over dims, then
\* syms): the value there is not null and an apply defines it.
\* (mutant) any value that is not null is replaced.
canReplaceDimOrSymAny(pos) ==
    LET v == IF pos < Len(dims) THEN dims[pos + 1] ELSE syms[pos - Len(dims) + 1]
    IN  v # 0

canReplaceDimOrSym(pos) ==
    LET v == IF pos < Len(dims) THEN dims[pos + 1] ELSE syms[pos - Len(dims) + 1]
    IN  isApplyResult(v)

\* composeAffineMapAndOperands as far as its loop; a map without results is
\* canonicalized and simplified at once.
ComposeFrom(m, opnds) ==
    /\ input' = [fn |-> "compose", map |-> m, operands |-> opnds]
    /\ IF Len(m.results) = 0
       THEN LET c == canonicalizeMapOrSetAndOperands(m, opnds)
            IN  /\ map' = simplifyAffineMap(c.map)
                /\ operands' = c.operands
                /\ dims' = << >>
                /\ syms' = << >>
                /\ pc' = "done"
       ELSE /\ map' = m
            /\ operands' = opnds
            /\ dims' = SubSeq(opnds, 1, m.numDims)
            /\ syms' = SubSeq(opnds, m.numDims + 1, Len(opnds))
            /\ pc' = "compose"
    /\ UNCHANGED <<ir, call>>

\* (mutant) the dimensions of the apply are not shifted past the ones there
\* are.
replaceDimOrSymShiftingSyms(m, ds, ss, pos) ==
    LET isDimReplacement == pos < Len(ds)
        p == IF isDimReplacement THEN pos ELSE pos - Len(ds)
        affineApply == Val(IF isDimReplacement THEN ds[p + 1] ELSE ss[p + 1])
        composeExpr == shiftExpr(affineApply.expr, 0, Len(ss))
        composeDims == SubSeq(affineApply.operands, 1, affineApply.numDims)
        composeSyms == SubSeq(affineApply.operands, affineApply.numDims + 1,
                              Len(affineApply.operands))
        toReplace == IF isDimReplacement THEN AffineDimExpr(p)
                                         ELSE AffineSymbolExpr(p)
    IN  [map  |-> replaceInMap(m, toReplace, composeExpr, Len(ds), Len(ss)),
         dims |-> (IF isDimReplacement THEN [ds EXCEPT ![p + 1] = 0] ELSE ds)
                      \o composeDims,
         syms |-> (IF isDimReplacement THEN ss ELSE [ss EXCEPT ![p + 1] = 0])
                      \o composeSyms]

\* replaceDimOrSym at a position where it succeeds: the map, dims and syms it
\* leaves.  The replacement is made with the sizes dims and syms have before
\* the operands of the apply are appended.
replaceDimOrSym(m, ds, ss, pos) ==
    LET isDimReplacement == pos < Len(ds)
        p == IF isDimReplacement THEN pos ELSE pos - Len(ds)
        affineApply == Val(IF isDimReplacement THEN ds[p + 1] ELSE ss[p + 1])
        composeExpr == shiftExpr(affineApply.expr, Len(ds), Len(ss))
        composeDims == SubSeq(affineApply.operands, 1, affineApply.numDims)
        composeSyms == SubSeq(affineApply.operands, affineApply.numDims + 1,
                              Len(affineApply.operands))
        toReplace == IF isDimReplacement THEN AffineDimExpr(p)
                                         ELSE AffineSymbolExpr(p)
    IN  [map  |-> replaceInMap(m, toReplace, composeExpr, Len(ds), Len(ss)),
         dims |-> (IF isDimReplacement THEN [ds EXCEPT ![p + 1] = 0] ELSE ds)
                      \o composeDims,
         syms |-> (IF isDimReplacement THEN ss ELSE [ss EXCEPT ![p + 1] = 0])
                      \o composeSyms]

\* One round of the loop: replaceDimOrSym at the first position where it
\* succeeds.
ReplaceDimOrSym ==
    /\ pc = "compose"
    /\ \E pos \in 0..(Len(dims) + Len(syms) - 1) :
        /\ canReplaceDimOrSym(pos)
        /\ \A q \in 0..(pos - 1) : ~canReplaceDimOrSym(q)
        /\ \E r \in {replaceDimOrSym(map, dims, syms, pos)} :
               /\ map' = r.map
               /\ dims' = r.dims
               /\ syms' = r.syms
    /\ UNCHANGED <<ir, call, input, pc, operands>>

\* composeAffineMapAndOperands after its loop, lines 658-689: the null
\* entries are pruned and the inputs renumbered (the assert: the map names no
\* null entry), the whole is canonicalized and simplified.
pruneAndCanonicalize(m, ds, ss) ==
    LET liveDim == [i \in 1..Len(ds) |-> ds[i] # 0]
        liveSym == [i \in 1..Len(ss) |-> ss[i] # 0]
    IN  IF \/ \E i \in 1..Len(ds) :
                 ~liveDim[i] /\ mapIsFunctionOf(m, AffineDimExpr(i - 1))
           \/ \E i \in 1..Len(ss) :
                 ~liveSym[i] /\ mapIsFunctionOf(m, AffineSymbolExpr(i - 1))
        THEN [pc |-> "fault", map |-> m, operands |-> << >>]
        ELSE [pc |-> "done"] @@
             canonicalizeMapOrSetAndOperands(
                 replaceDimsAndSymbols(m,
                     [i \in 1..Len(ds) |->
                         IF liveDim[i] THEN AffineDimExpr(Count(liveDim, i - 1))
                         ELSE AffineConstantExpr(0)],
                     [i \in 1..Len(ss) |->
                         IF liveSym[i] THEN AffineSymbolExpr(Count(liveSym, i - 1))
                         ELSE AffineConstantExpr(0)],
                     Count(liveDim, Len(ds)), Count(liveSym, Len(ss))),
                 SelectSeq(ds, LAMBDA v : v # 0) \o SelectSeq(ss, LAMBDA v : v # 0))

\* The loop of composeAffineMapAndOperands found no position to replace.
LoopOver ==
    /\ pc = "compose"
    /\ \A pos \in 0..(Len(dims) + Len(syms) - 1) : ~canReplaceDimOrSym(pos)

\* The loop is over: the tail of composeAffineMapAndOperands runs.
ComposeEnd ==
    /\ LoopOver
    /\ \E r \in {pruneAndCanonicalize(map, dims, syms)} :
           /\ pc' = r.pc
           /\ map' = IF r.pc = "done" THEN simplifyAffineMap(r.map) ELSE map
           /\ operands' = IF r.pc = "done" THEN r.operands ELSE operands
    /\ UNCHANGED <<ir, call, input, dims, syms>>

\* The loop of composeAffineMapAndOperands run to its end from a map, dims
\* and syms: replaceDimOrSym at the first position where it succeeds, until
\* there is none.
RECURSIVE composeLoop(_, _, _)
composeLoop(m, ds, ss) ==
    LET found == {pos \in 0..(Len(ds) + Len(ss) - 1) :
                     isApplyResult(IF pos < Len(ds) THEN ds[pos + 1]
                                                    ELSE ss[pos - Len(ds) + 1])}
    IN  IF found = {}
        THEN [map |-> m, dims |-> ds, syms |-> ss]
        ELSE LET first == CHOOSE pos \in found : \A q \in found : pos <= q
                 r == replaceDimOrSym(m, ds, ss, first)
             IN  composeLoop(r.map, r.dims, r.syms)

\* The end of composeAffineMapAndOperands, lines 687-689: what was pruned
\* and canonicalized is simplified.
simplifiedAtEnd(r) ==
    IF r.pc = "done"
    THEN [pc |-> "done", map |-> simplifyAffineMap(r.map),
          operands |-> r.operands]
    ELSE r

\* The tail of composeAffineMapAndOperands on what its loop has left.
composedAfterLoop(l) == simplifiedAtEnd(pruneAndCanonicalize(l.map, l.dims, l.syms))

\* composeAffineMapAndOperands as a function of the map and operands it is
\* given: the pair it leaves in them.
composeAffineMapAndOperands(m, opnds) ==
    IF Len(m.results) = 0
    THEN simplifiedAtEnd([pc |-> "done"] @@ canonicalizeMapOrSetAndOperands(m, opnds))
    ELSE composedAfterLoop(composeLoop(m, SubSeq(opnds, 1, m.numDims),
                                       SubSeq(opnds, m.numDims + 1, Len(opnds))))

\* A round of the loop that takes any position where replaceDimOrSym
\* succeeds, not the first one.
ReplaceAnyDimOrSym ==
    /\ pc = "compose"
    /\ \E pos \in 0..(Len(dims) + Len(syms) - 1) :
        /\ canReplaceDimOrSym(pos)
        /\ \E r \in {replaceDimOrSym(map, dims, syms, pos)} :
               /\ map' = r.map
               /\ dims' = r.dims
               /\ syms' = r.syms
    /\ UNCHANGED <<ir, call, input, pc, operands>>

\* mlir::canonicalizeMapAndOperands
CanonicalizeFrom(m, opnds) ==
    /\ input' = [fn |-> "canonicalize", map |-> m, operands |-> opnds]
    /\ LET c == canonicalizeMapOrSetAndOperands(m, opnds)
       IN  /\ map' = c.map
           /\ operands' = c.operands
    /\ pc' = "done"
    /\ UNCHANGED <<ir, call, dims, syms>>

\* A call of composeAffineMapAndOperands on a map and as many operands as it
\* has inputs.
ComposeBegin ==
    /\ pc = "idle"
    /\ \E n \in 0..MaxOperands : \E m \in Maps(n) : \E opnds \in OperandLists(n) :
          ComposeFrom(m, opnds)

\* A call of canonicalizeMapAndOperands on the same.
CanonicalizeMapAndOperands ==
    /\ pc = "idle"
    /\ \E n \in 0..MaxOperands : \E m \in Maps(n) : \E opnds \in OperandLists(n) :
          CanonicalizeFrom(m, opnds)

InitCompose ==
    /\ ir \in ComposeIRs
    /\ call = NoCall
    /\ Idle

NextCompose ==
    \/ ComposeBegin
    \/ CanonicalizeMapAndOperands
    \/ ReplaceDimOrSym
    \/ ComposeEnd

SpecCompose == InitCompose /\ [][NextCompose]_vars

\* Before a call of the composer, in one of two pieces of IR.
InitComposing ==
    /\ ir \in {NestedAppliesIR, TwoLoopsIR}
    /\ call = NoCall
    /\ Idle

\* composeAffineMapAndOperands alone.
NextComposing ==
    \/ ComposeBegin
    \/ ReplaceDimOrSym
    \/ ComposeEnd

\* The composer is sequential code that keeps running: a round of its loop
\* that can be made is made, and so is its tail.  The second condition is
\* WF_vars(ComposeEnd) with ENABLED <<ComposeEnd>>_vars written out as
\* LoopOver.
SpecComposeFair ==
    /\ InitComposing
    /\ [][NextComposing]_vars
    /\ WF_vars(ReplaceDimOrSym)
    /\ ([]<>(~LoopOver) \/ []<><<ComposeEnd>>_vars)

\* Value 1 is the constant three, a symbol of value 3, and value 4 is the sum
\* of value 3 with itself.
ConstantSymbolIR ==
    [own |-> ComposeSkeleton,
     vals |-> <<Constant(2, 3), Arg(2, 0, TRUE), OuterApplies[1], InnerApplies[3]>>]

\* Before a call of the composer, over an argument or over a constant.
InitComposeValues ==
    /\ ir \in {NestedAppliesIR, ConstantSymbolIR}
    /\ call = NoCall
    /\ Idle

SpecComposeValues == InitComposeValues /\ [][NextComposing]_vars

\* The composer with its loop free to take the positions in any order.
NextComposeAnyOrder ==
    \/ ComposeBegin
    \/ ReplaceAnyDimOrSym
    \/ ComposeEnd

SpecComposeAnyOrder == InitComposing /\ [][NextComposeAnyOrder]_vars

\* std::equal(first1, last1, first2) on the operands of the instruction and
\* the operands composed: the outcomes it can have.  It reads as many entries
\* of the second list as the first one has; with a second list that is
\* shorter it reads past its end, and anything can come of that.
stdEqual(oldOperands, resultOperands) ==
    IF \E i \in 1..Len(oldOperands) :
          i <= Len(resultOperands) /\ oldOperands[i] # resultOperands[i]
    THEN {"false"}
    ELSE IF Len(resultOperands) < Len(oldOperands)
    THEN {"true", "false", "fault"}
    ELSE {"true"}

\* (mutant) the maps are not compared.
sameAffineOpOperands(oldMap, oldOperands, newMap, resultOperands) ==
    stdEqual(oldOperands, resultOperands)

\* The condition of SimplifyAffineOp::matchAndRewrite, lines 867-868; the
\* operands are compared only if the maps are equal.
sameAffineOp(oldMap, oldOperands, newMap, resultOperands) ==
    IF newMap # oldMap THEN {"false"}
    ELSE stdEqual(oldOperands, resultOperands)

\* What an entry point leaves, given what composeAffineMapAndOperands made
\* (r) of the pair it held and whether it found the pair unchanged: on
\* failure the pair is as it was, on success the new pair is installed.
Return(m, opnds, r, same) ==
    /\ pc' = IF r.pc = "fault" \/ same = "fault" THEN "fault"
             ELSE IF same = "true" THEN "failure" ELSE "success"
    /\ map' = IF r.pc = "done" /\ same = "false" THEN r.map ELSE m
    /\ operands' = IF r.pc = "done" /\ same = "false" THEN r.operands ELSE opnds

\* AffineValueMap::canonicalize on a value map holding m and opnds.
AffineValueMapCanonicalize ==
    /\ pc = "idle"
    /\ \E n \in 0..MaxOperands : \E m \in Maps(n) : \E opnds \in OperandLists(n) :
          /\ input' = [fn |-> "AffineValueMap::canonicalize",
                       map |-> m, operands |-> opnds]
          /\ \E r \in {composeAffineMapAndOperands(m, opnds)} :
                Return(m, opnds, r,
                       IF r.map = m /\ r.operands = opnds THEN "true" ELSE "false")
    /\ UNCHANGED <<ir, call, dims, syms>>

\* SimplifyAffineOp::matchAndRewrite on an instruction with map m and map
\* operands opnds.
SimplifyAffineOp ==
    /\ pc = "idle"
    /\ \E n \in 0..MaxOperands : \E m \in Maps(n) : \E opnds \in OperandLists(n) :
          /\ input' = [fn |-> "SimplifyAffineOp::matchAndRewrite",
                       map |-> m, operands |-> opnds]
          /\ \E r \in {composeAffineMapAndOperands(m, opnds)} :
                \E same \in sameAffineOp(m, opnds, r.map, r.operands) :
                    Return(m, opnds, r, same)
    /\ UNCHANGED <<ir, call, dims, syms>>

InitSimplify ==
    /\ ir \in {NestedAppliesIR, TwoLoopsIR}
    /\ call = NoCall
    /\ Idle

NextSimplify ==
    \/ AffineValueMapCanonicalize
    \/ SimplifyAffineOp

SpecSimplify == InitSimplify /\ [][NextSimplify]_vars

\* Value 1 is the constant zero.
ZeroConstantIR ==
    [own |-> ComposeSkeleton,
     vals |-> <<Constant(2, 0), Arg(2, 0, TRUE), OuterApplies[1], InnerApplies[1]>>]

\* The maps handed to the canonicalization: those above and the product of
\* the first dimension and the first symbol.
CanonicalizeMaps(n) ==
    Maps(n) \cup
    {AffineMap(nd, n - nd, <<AffineMul(AffineDimExpr(0), AffineSymbolExpr(0))>>) :
        nd \in 1..(n - 1)}

\* canonicalizeMapOrSetAndOperands step by step.  With no operands it
\* returns at once.
CanonicalizeBegin ==
    /\ pc = "idle"
    /\ \E n \in 0..MaxOperands :
       \E m \in CanonicalizeMaps(n) : \E opnds \in OperandLists(n) :
          /\ input' = [fn |-> "canonicalize", map |-> m, operands |-> opnds]
          /\ map' = m
          /\ operands' = opnds
          /\ pc' = IF Len(opnds) = 0 THEN "done" ELSE "promote"
    /\ UNCHANGED <<ir, call, dims, syms>>

\* Its call of canonicalizePromotedSymbols, line 768.
CanonicalizePromotedSymbols ==
    /\ pc = "promote"
    /\ \E p \in {canonicalizePromotedSymbols(map, operands)} :
          /\ map' = p.map
          /\ operands' = p.operands
    /\ pc' = "remap"
    /\ UNCHANGED <<ir, call, input, dims, syms>>

\* The rest of it, lines 770-830.
CanonicalizeUsed ==
    /\ pc = "remap"
    /\ \E c \in {splitOperands([map |-> map, operands |-> operands])} :
          /\ map' = c.map
          /\ operands' = c.operands
    /\ pc' = "done"
    /\ UNCHANGED <<ir, call, input, dims, syms>>

NextCanonicalize ==
    \/ CanonicalizeBegin
    \/ CanonicalizePromotedSymbols
    \/ CanonicalizeUsed

InitCanonicalize ==
    /\ ir \in ComposeIRs \cup {ZeroConstantIR}
    /\ call = NoCall
    /\ Idle

SpecCanonicalize == InitCanonicalize /\ [][NextCanonicalize]_vars

\* ------------------------------------------- operand lists of any length
RECURSIVE namesOnlyInputs(_, _, _)
\* The expression names no dimension from nd on and no symbol from ns on.
namesOnlyInputs(e, nd, ns) ==
    IF e[1] = "d" THEN e[2] < nd
    ELSE IF e[1] = "s" THEN e[2] < ns
    ELSE IF e[1] = "c" THEN TRUE
    ELSE namesOnlyInputs(e[2], nd, ns) /\ namesOnlyInputs(e[3], nd, ns)

\* Every result of the map names inputs the map has.
wellFormed(m) ==
    \A i \in 1..Len(m.results) :
        namesOnlyInputs(m.results[i], m.numDims, m.numSymbols)

\* How a call ended: "done" with the pair left in map and operands, or
\* "fault".
Ended(p, m, opnds) == [pc |-> p, map |-> m, operands |-> opnds]

\* Undefined behaviour on the pair (m, opnds): the call may crash, and may
\* return with the pair as it stands.
Undefined(m, opnds) == {Ended("fault", m, opnds), Ended("done", m, opnds)}

\* canonicalizeMapOrSetAndOperands on operands of any number, lines 756-831:
\* an empty list returns at once (762), before the assert on the number of
\* operands (765); usedDims and usedSyms are bit vectors of numDims and
\* numSymbols bits, and setting the bit of an input the map does not have is
\* out of bounds.
canonicalizeAnyOperands(m, opnds) ==
    IF Len(opnds) = 0 THEN {Ended("done", m, opnds)}
    ELSE IF m.numDims + m.numSymbols # Len(opnds)
         THEN {Ended("fault", m, opnds)}
    ELSE IF ~wellFormed(m) THEN Undefined(m, opnds)
    ELSE {[pc |-> "done"] @@ canonicalizeMapOrSetAndOperands(m, opnds)}

\* composeAffineMapAndOperands, lines 658-685, on dims and syms of any
\* length: the null entries are pruned, the inputs renumbered and the counts
\* of the map set to the entries left.
pruneNulls(m, ds, ss) ==
    LET liveDim == [i \in 1..Len(ds) |-> ds[i] # 0]
        liveSym == [i \in 1..Len(ss) |-> ss[i] # 0]
    IN  [map |-> replaceDimsAndSymbols(m,
                     [i \in 1..Len(ds) |->
                         IF liveDim[i] THEN AffineDimExpr(Count(liveDim, i - 1))
                         ELSE AffineConstantExpr(0)],
                     [i \in 1..Len(ss) |->
                         IF liveSym[i] THEN AffineSymbolExpr(Count(liveSym, i - 1))
                         ELSE AffineConstantExpr(0)],
                     Count(liveDim, Len(ds)), Count(liveSym, Len(ss))),
         operands |-> SelectSeq(ds, LAMBDA v : v # 0)
                          \o SelectSeq(ss, LAMBDA v : v # 0)]

\* composeAffineMapAndOperands on operands of any number: there is no test
\* of the number on entry; fewer operands than dimensions make line 639 read
\* past the end of the list; otherwise the operands after the dimensions are
\* taken as the symbols, however many they are.
composeAnyOperands(m, opnds) ==
    IF Len(m.results) = 0
    THEN {Ended(c.pc, simplifyAffineMap(c.map), c.operands) :
             c \in canonicalizeAnyOperands(m, opnds)}
    ELSE IF Len(opnds) < m.numDims THEN Undefined(m, opnds)
    ELSE LET l == composeLoop(m, SubSeq(opnds, 1, m.numDims),
                              SubSeq(opnds, m.numDims + 1, Len(opnds)))
             p == pruneNulls(l.map, l.dims, l.syms)
         IN  {Ended(c.pc, simplifyAffineMap(c.map), c.operands) :
                 c \in canonicalizeAnyOperands(p.map, p.operands)}

\* The maps with n inputs and the operand lists of another length.
Mismatched ==
    {<<n, k>> \in (0..MaxOperands) \X (0..MaxOperands) : n # k}

\* composeAffineMapAndOperands is called with a number of operands that is
\* not the number of inputs of the map.
ComposeMismatched ==
    /\ pc = "idle"
    /\ \E nk \in Mismatched :
       \E m \in Maps(nk[1]) : \E opnds \in OperandLists(nk[2]) :
          /\ input' = [fn |-> "compose", map |-> m, operands |-> opnds]
          /\ \E r \in composeAnyOperands(m, opnds) :
                /\ pc' = r.pc
                /\ map' = r.map
                /\ operands' = r.operands
    /\ UNCHANGED <<ir, call, dims, syms>>

\* canonicalizeMapAndOperands is called with such a list.
CanonicalizeMismatched ==
    /\ pc = "idle"
    /\ \E nk \in Mismatched :
       \E m \in Maps(nk[1]) : \E opnds \in OperandLists(nk[2]) :
          /\ input' = [fn |-> "canonicalize", map |-> m, operands |-> opnds]
          /\ \E r \in canonicalizeAnyOperands(m, opnds) :
                /\ pc' = r.pc
                /\ map' = r.map
                /\ operands' = r.operands
    /\ UNCHANGED <<ir, call, dims, syms>>

NextMismatched == ComposeMismatched \/ CanonicalizeMismatched

SpecMismatched == InitComposing /\ [][NextMismatched]_vars

\* ------------------------------------------------------- composing fully
\* A call of fullyComposeAffineMapAndOperands in progress and the calls of
\* composeAffineMapAndOperands it has made.
FullyComposing(invocations) ==
    [fn |-> "fullyCompose", v |-> 0, region |-> 0, ret |-> "none",
     invocations |-> invocations]

\* The test of every operand is made whatever the others are.
anyOfAlways(opnds) == Len(opnds) > 0

\* llvm::any_of(*operands, ...): an operand is the result of an apply.
anyOfApplies(opnds) == \E i \in 1..Len(opnds) : isApplyResult(opnds[i])

\* mlir::fullyComposeAffineMapAndOperands is called on a map and as many
\* operands as it has inputs, and comes to the test of its loop.
FullyComposeBegin ==
    /\ pc = "idle"
    /\ \E n \in 0..MaxOperands : \E m \in Maps(n) : \E opnds \in OperandLists(n) :
          /\ input' = [fn |-> "fullyCompose", map |-> m, operands |-> opnds]
          /\ map' = m
          /\ operands' = opnds
    /\ pc' = "while"
    /\ call' = FullyComposing(0)
    /\ UNCHANGED <<ir, dims, syms>>

\* A round of its loop: an operand is the result of an apply, and
\* composeAffineMapAndOperands is called on the map and the operands.
FullyComposeRound ==
    /\ pc = "while"
    /\ anyOfApplies(operands)
    /\ \E r \in {composeAffineMapAndOperands(map, operands)} :
          /\ pc' = IF r.pc = "done" THEN "while" ELSE r.pc
          /\ map' = r.map
          /\ operands' = r.operands
    /\ call' = FullyComposing(IF call.invocations < MaxInvocations
                              THEN call.invocations + 1
                              ELSE MaxInvocations)
    /\ UNCHANGED <<ir, input, dims, syms>>

\* No operand is the result of an apply: the loop is left and the function
\* returns.
FullyComposeReturn ==
    /\ pc = "while"
    /\ ~anyOfApplies(operands)
    /\ pc' = "done"
    /\ UNCHANGED <<ir, call, input, map, operands, dims, syms>>

NextFullyCompose ==
    \/ FullyComposeBegin
    \/ FullyComposeRound
    \/ FullyComposeReturn

\* Before a call of fullyComposeAffineMapAndOperands, in the IR where an
\* apply is an operand of an apply.
InitFullyCompose ==
    /\ ir = NestedAppliesIR
    /\ call = NoCall
    /\ Idle

\* The test of the loop has found an operand that an apply defines.
RoundPending == pc = "while" /\ anyOfApplies(operands)

\* The function is sequential code that keeps running: the test of its loop
\* is made, and then the round or the return it decides on.  The first
\* condition is the weak fairness of FullyComposeRound, written with the
\* guard of the action: a step that leaves a state where a round is pending
\* is that round, no other action being enabled there.
SpecFullyCompose ==
    /\ InitFullyCompose
    /\ [][NextFullyCompose]_vars
    /\ ([]<>(~RoundPending) \/ []<><<RoundPending>>_vars)
    /\ WF_vars(FullyComposeReturn)

\* ------------------------------------------------------------- trip counts
MinInt == -(2 ^ (IntBits - 1))

MaxInt == 2 ^ (IntBits - 1) - 1

Ints == MinInt..MaxInt

\* mlir::ceilDiv(lhs, rhs) for the positive rhs it expects.
ceilDiv(lhs, rhs) ==
    IF lhs % rhs > 0 THEN (lhs \div rhs) + 1 ELSE lhs \div rhs

\* Builder::getConstantAffineMap(val): no inputs, the one result val.
getConstantAffineMap(val) == AffineMap(0, 0, <<AffineConstantExpr(val)>>)

\* ub - lb in the integers of the machine: the difference where it is one
\* of them; a signed overflow is undefined and can leave any.
loopSpanOf(lb, ub) == IF ub - lb \in Ints THEN {ub - lb} ELSE Ints

\* buildTripCountMapAndOperands, lines 43-46: the map for a span ub - lb.
tripCountOfSpan(loopSpan, step) ==
    getConstantAffineMap(ceilDiv(IF loopSpan < 0 THEN 0 ELSE loopSpan, step))

\* buildTripCountMapAndOperands on a loop with constant bounds lb and ub and
\* the step it was built with, which is positive; the operands handed in
\* are cleared.
BuildTripCountMapAndOperands ==
    /\ pc = "idle"
    /\ \E lb \in Ints, ub \in Ints, step \in 1..MaxInt :
          /\ input' = [fn |-> "buildTripCountMapAndOperands",
                       lb |-> lb, ub |-> ub, step |-> step]
          /\ \E loopSpan \in loopSpanOf(lb, ub) :
                map' = tripCountOfSpan(loopSpan, step)
    /\ operands' = << >>
    /\ pc' = "done"
    /\ UNCHANGED <<ir, call, dims, syms>>

\* The results a bound map can have: a constant, the operand plus a
\* constant, the double of the operand.
BoundExprs ==
    {AffineConstantExpr(c) : c \in (-MaxBound)..MaxBound}
        \cup {AffineAdd(AffineDimExpr(0), AffineConstantExpr(c)) : c \in 0..1}
        \cup {AffineMul(AffineDimExpr(0), AffineConstantExpr(2))}

\* A bound: its map and the operands of the map; the one operand there can
\* be is the induction variable of the loop around, value 1.
BoundOf(results) ==
    IF \E i \in 1..Len(results) : isFunctionOf(results[i], AffineDimExpr(0))
    THEN [map |-> AffineMap(1, 0, results), operands |-> <<1>>]
    ELSE [map |-> AffineMap(0, 0, results), operands |-> << >>]

\* The lower bounds: one result, or the maximum of two.
LowerBounds ==
    {BoundOf(<<e>>) : e \in BoundExprs}
        \cup {BoundOf(<<e, AffineConstantExpr(0)>>) :
                 e \in {AffineConstantExpr(1), AffineDimExpr(0)}}

\* The upper bounds: one result, or the minimum of several.
UpperBounds ==
    {BoundOf(res) :
        res \in UNION {[1..n -> BoundExprs] : n \in 1..MaxResults}}

\* The loops asked about: the inner loop of TwoLoopsIR with its bounds and
\* its step, which AffineForOp::build keeps positive.
Loops ==
    [lb : LowerBounds, ub : UpperBounds, step : 1..MaxBound]

\* AffineMap::isSingleConstant
isSingleConstant(m) == Len(m.results) = 1 /\ isConstantExpr(m.results[1])

\* AffineForOp::hasConstantBounds
hasConstantBounds(loop) ==
    isSingleConstant(loop.lb.map) /\ isSingleConstant(loop.ub.map)

RECURSIVE flattened(_)
\* The coefficient of d0 and the constant term of an affine expression of
\* d0, as getFlattenedAffineExpr gives them.
flattened(e) ==
    IF e[1] = "d" THEN [d |-> 1, c |-> 0]
    ELSE IF e[1] = "c" THEN [d |-> 0, c |-> e[2]]
    ELSE LET l == flattened(e[2])
             r == flattened(e[3])
         IN  IF e[1] = "+" THEN [d |-> l.d + r.d, c |-> l.c + r.c]
             ELSE IF l.d = 0 THEN [d |-> l.c * r.d, c |-> l.c * r.c]
             ELSE [d |-> l.d * r.c, c |-> l.c * r.c]

\* One result of AffineValueMap::difference for two results over the same
\* operand: the difference, simplified.
differenceExpr(u, l) ==
    LET a == flattened(u)
        b == flattened(l)
    IN  AffineAdd(AffineMul(AffineDimExpr(0), AffineConstantExpr(a.d - b.d)),
                  AffineConstantExpr(a.c - b.c))

\* AffineExpr::ceilDiv(step): a constant folds, a division by one changes
\* nothing.
AffineCeilDiv(e, step) ==
    IF isConstantExpr(e) THEN AffineConstantExpr(ceilDiv(e[2], step))
    ELSE IF step = 1 THEN e
    ELSE <<"ceildiv", e, AffineConstantExpr(step)>>

\* The null AffineMap(), which tests false.
NullAffineMap == [null |-> TRUE]

\* buildTripCountMapAndOperands: the pairs (map, operands) it can leave.
\* With constant bounds the span ub - lb is raised to 0 and divided; else a
\* lower bound without exactly one result leaves the null map, and
\* otherwise each result of the upper bound less the lower bound is divided
\* by the step, with no raising to 0.
buildTripCountMapAndOperands(loop) ==
    IF hasConstantBounds(loop)
    THEN {[map |-> tripCountOfSpan(loopSpan, loop.step), operands |-> << >>] :
             loopSpan \in loopSpanOf(loop.lb.map.results[1][2],
                                     loop.ub.map.results[1][2])}
    ELSE IF Len(loop.lb.map.results) # 1
         THEN {[map |-> NullAffineMap, operands |-> << >>]}
    ELSE LET ubRes == loop.ub.map.results
             diff == BoundOf(dropDuplicates(
                         [i \in 1..Len(ubRes) |->
                             differenceExpr(ubRes[i], loop.lb.map.results[1])]))
         IN  {[map |-> AffineMap(diff.map.numDims, 0,
                           [i \in 1..Len(diff.map.results) |->
                               AffineCeilDiv(diff.map.results[i], loop.step)]),
               operands |-> diff.operands]}

\* static_cast<uint64_t> of an int64_t, in the width of the model.
toUnsigned(v) == v % (2 ^ IntBits)

\* std::numeric_limits<uint64_t>::max()
UIntMax == 2 ^ IntBits - 1

\* Optional<uint64_t>: None is the empty set, a value the set of it.
None == {}

Some(v) == {v}

getValue(optional) == CHOOSE v \in optional : TRUE

RECURSIVE minOfTripCounts(_, _, _)
\* The loop of getConstantTripCount, lines 96-107, from result i on.
minOfTripCounts(results, i, tripCount) ==
    IF i > Len(results) THEN tripCount
    ELSE IF isConstantExpr(results[i])
         THEN minOfTripCounts(results, i + 1,
                  IF tripCount # None
                  THEN LET a == getValue(tripCount)
                           b == toUnsigned(results[i][2])
                       IN  Some(IF b < a THEN b ELSE a)
                  ELSE Some(toUnsigned(results[i][2])))
    ELSE None

\* getConstantTripCount on the trip count map built.
constantTripCount(m) ==
    IF m = NullAffineMap THEN None ELSE minOfTripCounts(m.results, 1, None)

\* What a query of the loop analysis returned.
Returned(fn, ret) == [fn |-> fn, v |-> 0, region |-> 0, ret |-> ret]

\* getConstantTripCount(forOp)
GetConstantTripCount ==
    /\ pc = "idle"
    /\ \E loop \in Loops :
          /\ input' = [fn |-> "getConstantTripCount", lb |-> loop.lb,
                       ub |-> loop.ub, step |-> loop.step]
          /\ \E built \in buildTripCountMapAndOperands(loop) :
                /\ map' = built.map
                /\ operands' = built.operands
                /\ call' = Returned("getConstantTripCount",
                                    constantTripCount(built.map))
    /\ pc' = "done"
    /\ UNCHANGED <<ir, dims, syms>>

RECURSIVE GreatestCommonDivisor64(_, _)
\* llvm::GreatestCommonDivisor64, Euclid's algorithm on unsigned numbers.
GreatestCommonDivisor64(a, b) ==
    IF b = 0 THEN a ELSE GreatestCommonDivisor64(b, a % b)

RECURSIVE getLargestKnownDivisor(_)
\* AffineExpr::getLargestKnownDivisor: 1 for an input, the magnitude of a
\* constant, the product over a product, the common divisor of the two sides
\* of a sum and of a division.
getLargestKnownDivisor(e) ==
    IF e[1] \in {"d", "s"} THEN 1
    ELSE IF e[1] = "c" THEN (IF e[2] < 0 THEN -e[2] ELSE e[2])
    ELSE IF e[1] = "*"
         THEN getLargestKnownDivisor(e[2]) * getLargestKnownDivisor(e[3])
    ELSE GreatestCommonDivisor64(getLargestKnownDivisor(e[2]),
                                 getLargestKnownDivisor(e[3]))

\* A zero trip count read as its own divisor, without lines 130-131.
thisGcdZeroAsItself(resultExpr) ==
    IF isConstantExpr(resultExpr) THEN toUnsigned(resultExpr[2])
    ELSE getLargestKnownDivisor(resultExpr)

\* getLargestDivisorOfTripCount, lines 126-138: the divisor of one result.
thisGcd(resultExpr) ==
    IF isConstantExpr(resultExpr)
    THEN LET tripCount == toUnsigned(resultExpr[2])
         IN  IF tripCount = 0 THEN UIntMax ELSE tripCount
    ELSE getLargestKnownDivisor(resultExpr)

RECURSIVE gcdOfTripCounts(_, _, _)
\* The loop of getLargestDivisorOfTripCount, lines 125-143, from result i on.
gcdOfTripCounts(results, i, gcd) ==
    IF i > Len(results) THEN gcd
    ELSE gcdOfTripCounts(results, i + 1,
             IF gcd # None
             THEN Some(GreatestCommonDivisor64(getValue(gcd),
                                               thisGcd(results[i])))
             ELSE Some(thisGcd(results[i])))

\* getLargestDivisorOfTripCount on the trip count map built; the map has a
\* result, so the loop leaves a value.
largestDivisorOfTripCount(m) ==
    IF m = NullAffineMap THEN 1
    ELSE getValue(gcdOfTripCounts(m.results, 1, None))

\* getLargestDivisorOfTripCount(forOp)
GetLargestDivisorOfTripCount ==
    /\ pc = "idle"
    /\ \E loop \in Loops :
          /\ input' = [fn |-> "getLargestDivisorOfTripCount", lb |-> loop.lb,
                       ub |-> loop.ub, step |-> loop.step]
          /\ \E built \in buildTripCountMapAndOperands(loop) :
                /\ map' = built.map
                /\ operands' = built.operands
                /\ call' = Returned("getLargestDivisorOfTripCount",
                                    largestDivisorOfTripCount(built.map))
    /\ pc' = "done"
    /\ UNCHANGED <<ir, dims, syms>>

InitTripCount ==
    /\ ir = TwoLoopsIR
    /\ call = NoCall
    /\ Idle

NextTripCount ==
    \/ BuildTripCountMapAndOperands
    \/ GetConstantTripCount
    \/ GetLargestDivisorOfTripCount

SpecTripCount == InitTripCount /\ [][NextTripCount]_vars

\* ---------------------------------------------------------- the accesses
\* A loop is named by the region it holds.
ForOps == {r \in Regions : ComposeSkeleton[r] = "for"}

\* The induction variables of the loops, outermost first: values
\* 1..MaxDepth - 1.
InductionVars == [v \in 1..(MaxDepth - 1) |-> Arg(v + 1, 0, TRUE)]

\* The operands of the bounds of each loop: none, or the induction variable
\* of a loop around it.
BoundOperands ==
    {b \in [Regions -> {<< >>} \cup {<<v>> : v \in 1..(MaxDepth - 1)}] :
        \A r \in Regions :
            \A i \in 1..Len(b[r]) : r \in ForOps /\ b[r][i] < r - 1}

\* Value MaxDepth: an apply in the innermost loop over the outermost and the
\* innermost induction variable.
FirstApplies ==
    {ApplyOf(MaxDepth, <<1, MaxDepth - 1>>, 2, e) :
        e \in {AffineMul(AffineDimExpr(0), AffineConstantExpr(2)),
               AffineAdd(AffineDimExpr(1), AffineConstantExpr(1)),
               AffineAdd(AffineDimExpr(0), AffineDimExpr(1))}}

\* Value MaxDepth + 1: an apply over value MaxDepth, or over the outermost
\* induction variable.
SecondApplies ==
    {ApplyOf(MaxDepth, <<MaxDepth>>, 1,
             AffineAdd(AffineDimExpr(0), AffineConstantExpr(1))),
     ApplyOf(MaxDepth, <<1>>, 1,
             AffineMul(AffineDimExpr(0), AffineConstantExpr(2)))}

\* The IRs of the access analyses: a nest of loops, the operands of their
\* bounds, and two applies in the innermost one.
AccessIRs ==
    {[own |-> ComposeSkeleton, vals |-> InductionVars \o <<a1, a2>>,
      bounds |-> b] :
        a1 \in FirstApplies, a2 \in SecondApplies, b \in BoundOperands}

\* forOp.getInductionVar()
getInductionVar(forOp) ==
    CHOOSE v \in 1..Len(ir.vals) :
        Val(v).kind = "arg" /\ Val(v).at = forOp /\ Val(v).argNo = 0

RECURSIVE getReachableAffineApplyOps(_)
RECURSIVE reachableFromOperands(_, _)
\* getReachableAffineApplyOps({v}): the applies met walking up from v, each
\* before those its operands lead to.
getReachableAffineApplyOps(v) ==
    IF Val(v).kind # "apply" THEN << >>
    ELSE <<v>> \o reachableFromOperands(Val(v).operands, 1)

reachableFromOperands(opnds, i) ==
    IF i > Len(opnds) THEN << >>
    ELSE getReachableAffineApplyOps(opnds[i])
             \o reachableFromOperands(opnds, i + 1)

\* AffineValueMap::isFunctionOf(0, value) of the value map of an apply: the
\* result names the first position value is bound to.
valueMapIsFunctionOf(apply, value) ==
    LET at == Where([i \in 1..Len(Val(apply).operands) |->
                        Val(apply).operands[i] = value])
    IN  /\ at # << >>
        /\ isFunctionOf(Val(apply).expr, AffineDimExpr(at[1] - 1))

\* isAccessIndexInvariant(iv, index)
isAccessIndexInvariant(iv, index) ==
    LET affineApplyOps == getReachableAffineApplyOps(index)
    IN  IF affineApplyOps = << >> THEN index # iv
        ELSE IF Len(affineApplyOps) > 1 THEN FALSE
        ELSE ~valueMapIsFunctionOf(affineApplyOps[1], iv)

\* isInvariantAccess, lines 195-199: no operand of the access varies with
\* the induction variable of forOp.
mapOperandsInvariant(mapOperands, forOp) ==
    \A i \in 1..Len(mapOperands) :
        isAccessIndexInvariant(getInductionVar(forOp), mapOperands[i])

\* Without lines 202-212: no other loop is looked at.
depForOpsNone(forOp) == {}

\* isInvariantAccess, lines 202-206: the loops among the users of the
\* induction variable of forOp.
depForOps(forOp) ==
    {r \in ForOps :
        \E i \in 1..Len(ir.bounds[r]) :
            ir.bounds[r][i] = getInductionVar(forOp)}

\* The calls of isInvariantAccess in progress, outermost first: the loop of
\* each and the dependent loops it has yet to ask about.
InProgress(stack) ==
    [fn |-> "isInvariantAccess", v |-> 0, region |-> 0, ret |-> "none",
     stack |-> stack]

\* A call of isInvariantAccess(memOp, forOp) below the calls of stack, up
\* to its loop over the dependent loops: a false goes back through every
\* caller, line 211.
EnterInvariantAccess(mapOperands, forOp, stack) ==
    IF mapOperandsInvariant(mapOperands, forOp)
    THEN /\ pc' = "recurse"
         /\ call' = InProgress(Append(stack, [forOp |-> forOp,
                                              depForOps |-> depForOps(forOp)]))
    ELSE /\ pc' = "done"
         /\ call' = Returned("isInvariantAccess", "false")

\* The operands of an access: values of the IR.
MapOperandLists ==
    UNION {[1..n -> 1..(MaxDepth + 1)] : n \in 1..MaxOperands}

\* isInvariantAccess(memOp, forOp) is called.
IsInvariantAccess ==
    /\ pc = "idle"
    /\ \E mapOperands \in MapOperandLists, forOp \in ForOps :
          /\ input' = [fn |-> "isInvariantAccess", operands |-> mapOperands,
                       forOp |-> forOp]
          /\ EnterInvariantAccess(mapOperands, forOp, << >>)
    /\ UNCHANGED <<ir, map, operands, dims, syms>>

\* One round of the loop of lines 209-212 in the innermost call: the next
\* dependent loop, in whatever order the DenseSet gives them, is asked
\* about; after the last one the call returns true.
IsInvariantAccessLoop ==
    /\ pc = "recurse"
    /\ LET depth == Len(call.stack)
           top == call.stack[depth]
           callers == SubSeq(call.stack, 1, depth - 1)
       IN  IF top.depForOps = {}
           THEN IF depth = 1
                THEN /\ pc' = "done"
                     /\ call' = Returned("isInvariantAccess", "true")
                ELSE /\ pc' = pc
                     /\ call' = InProgress(callers)
           ELSE \E depForOp \in top.depForOps :
                    EnterInvariantAccess(
                        input.operands, depForOp,
                        Append(callers,
                               [top EXCEPT !.depForOps = @ \ {depForOp}]))
    /\ UNCHANGED <<ir, input, map, operands, dims, syms>>

InitAccess ==
    /\ ir \in AccessIRs
    /\ call = NoCall
    /\ Idle

NextInvariantAccess == IsInvariantAccess \/ IsInvariantAccessLoop

\* The loop over the dependent loops goes on as long as a call is in
\* progress.
SpecInvariantAccess ==
    /\ InitAccess
    /\ [][NextInvariantAccess]_vars
    /\ WF_vars(IsInvariantAccessLoop)

\* mlir::isForInductionVar
isForInductionVar(v) ==
    /\ isBlockArgument(v)
    /\ ParentOp(v) # 0
    /\ OwnerKind(ParentOp(v)) = "for"

\* mlir::getForInductionVarOwner, for an induction variable.
getForInductionVarOwner(iv) == ParentOp(iv)

RECURSIVE coefficientOf(_, _)
RECURSIVE constantOf(_)
\* getFlattenedAffineExpr: the coefficient of an input in an affine
\* expression, and the constant term.
coefficientOf(e, leaf) ==
    IF e[1] \in {"d", "s"} THEN (IF e = leaf THEN 1 ELSE 0)
    ELSE IF e[1] = "c" THEN 0
    ELSE IF e[1] = "+" THEN coefficientOf(e[2], leaf) + coefficientOf(e[3], leaf)
    ELSE coefficientOf(e[2], leaf) * constantOf(e[3])
             + constantOf(e[2]) * coefficientOf(e[3], leaf)

constantOf(e) ==
    IF e[1] \in {"d", "s"} THEN 0
    ELSE IF e[1] = "c" THEN e[2]
    ELSE IF e[1] = "+" THEN constantOf(e[2]) + constantOf(e[3])
    ELSE constantOf(e[2]) * constantOf(e[3])

\* flat[pos] for a result of a map: inputs are numbered dimensions first.
flatAt(m, resultExpr, pos) ==
    coefficientOf(resultExpr,
                  IF pos < m.numDims THEN AffineDimExpr(pos)
                  ELSE AffineSymbolExpr(pos - m.numDims))

\* The layout of the memref accessed: no layout map, the identity, one map
\* that is not the identity, two maps.
Layouts == {"none", "identity", "other", "two"}

\* isContiguousAccess, lines 263-266
hasNonTrivialLayout(layout) == layout \in {"other", "two"}

\* isContiguousAccess, lines 281-289: the last position iv is bound to, -1
\* when there is none; the assert fails on an operand that is neither a
\* valid symbol nor an induction variable.
positionOf(iv, mapOperands) ==
    LET at == Where([j \in 1..Len(mapOperands) |-> mapOperands[j] = iv])
    IN  IF at = << >> THEN -1 ELSE at[Len(at)] - 1

canonicalized(mapOperands) ==
    \A j \in 1..Len(mapOperands) :
        \/ isValidSymbolAnywhere(mapOperands[j]) = "true"
        \/ isForInductionVar(mapOperands[j])

\* isContiguousAccess, line 291: the result varies along iv.
variesAlong(coefficient) == coefficient > 0

RECURSIVE uniqueVaryingIndex(_, _, _, _)
\* The loop of lines 272-301 from result i on (numbered from 0), with
\* uniqueVaryingIndexAlongIv as found so far: whether the loop returned
\* false, and the index it ends with.
uniqueVaryingIndex(memoryOp, pos, i, unique) ==
    IF i >= Len(memoryOp.map.results)
    THEN [returnedFalse |-> FALSE, index |-> unique]
    ELSE LET coefficient ==
                 IF pos = -1 THEN 0
                 ELSE flatAt(memoryOp.map, memoryOp.map.results[i + 1], pos)
         IN  IF pos # -1 /\ variesAlong(coefficient)
             THEN IF unique # -1 \/ coefficient > 1
                  THEN [returnedFalse |-> TRUE, index |-> unique]
                  ELSE uniqueVaryingIndex(memoryOp, pos, i + 1, i)
             ELSE uniqueVaryingIndex(memoryOp, pos, i + 1, unique)

\* What isContiguousAccess leaves: the value returned and *memRefDim.
Contiguous(ret, memRefDim) == [ret |-> ret, memRefDim |-> memRefDim]

RECURSIVE isContiguousAccess(_, _, _)
RECURSIVE overDepForOps(_, _, _)
\* isContiguousAccess(iv, memoryOp, memRefDim), memRefDim holding before
\* what the caller left in it: every outcome, for every order the DenseSet
\* can give the dependent loops in.
isContiguousAccess(iv, memoryOp, before) ==
    IF hasNonTrivialLayout(memoryOp.layout) THEN {Contiguous("false", before)}
    ELSE IF ~canonicalized(memoryOp.operands) THEN {Contiguous("fault", before)}
    ELSE LET unique == uniqueVaryingIndex(
                           memoryOp, positionOf(iv, memoryOp.operands), 0, -1)
         IN  IF unique.returnedFalse THEN {Contiguous("false", before)}
             ELSE overDepForOps(
                      depForOps(getForInductionVarOwner(iv)), memoryOp,
                      IF unique.index = -1 THEN -1
                      ELSE Len(memoryOp.map.results) - (unique.index + 1))

\* The loop of lines 316-325 over the dependent loops left, then line 327.
overDepForOps(pending, memoryOp, memRefDim) ==
    IF pending = {} THEN {Contiguous("true", memRefDim)}
    ELSE UNION {
           UNION {
             IF dep.ret # "true" THEN {Contiguous(dep.ret, memRefDim)}
             ELSE IF memRefDim = -1
                  THEN overDepForOps(pending \ {depForOp}, memoryOp,
                                     dep.memRefDim)
             ELSE IF memRefDim # dep.memRefDim
                  THEN {Contiguous("false", memRefDim)}
             ELSE overDepForOps(pending \ {depForOp}, memoryOp, memRefDim) :
               dep \in isContiguousAccess(getInductionVar(depForOp),
                                          memoryOp, -1)} :
           depForOp \in pending}

\* The results of an access map with n inputs: an input times 1, 2 or -1.
AccessExprs(n) ==
    {AffineMul(AffineDimExpr(j), AffineConstantExpr(c)) :
        j \in 0..(n - 1), c \in {-1, 1, 2}}

\* The operand lists of the accesses: induction variables, outer ones
\* first, and the list of the apply of the innermost loop alone.
AccessOperandLists ==
    {o \in UNION {[1..n -> 1..(MaxDepth - 1)] : n \in 1..MaxOperands} :
        \A j \in 1..(Len(o) - 1) : o[j] <= o[j + 1]}
        \cup {<<MaxDepth>>}

\* The loads and stores asked about: the operands, the access map with one
\* result for each dimension of the memref, the layout of the memref.
\* Only the simplest access is tried on the layouts that are refused.
MemoryOps ==
    UNION {[operands : {o},
            layout : {l \in Layouts : ~hasNonTrivialLayout(l)},
            map : {AffineMap(Len(o), 0, res) :
                      res \in UNION {[1..n -> AccessExprs(Len(o))] :
                                        n \in 1..MaxResults}}] :
              o \in AccessOperandLists}
        \cup [operands : {<<1>>},
              layout : {l \in Layouts : hasNonTrivialLayout(l)},
              map : {AffineMap(1, 0, <<AffineDimExpr(0)>>)}]

\* isContiguousAccess(iv, memoryOp, &memRefDim) is called with the -1 its
\* callers leave in memRefDim.
IsContiguousAccess ==
    /\ pc = "idle"
    /\ \E forOp \in ForOps, memoryOp \in MemoryOps :
          /\ input' = [fn |-> "isContiguousAccess",
                       iv |-> getInductionVar(forOp), memoryOp |-> memoryOp]
          /\ \E r \in isContiguousAccess(getInductionVar(forOp), memoryOp, -1) :
                call' = [fn |-> "isContiguousAccess", v |-> 0, region |-> 0,
                         ret |-> r.ret, memRefDim |-> r.memRefDim]
    /\ pc' = "done"
    /\ UNCHANGED <<ir, map, operands, dims, syms>>

\* The loads and stores of the bodies tried: one operand, as many results
\* as a map may have and no layout map, or a layout that is refused.
BodyAccesses ==
    {memoryOp \in MemoryOps :
        /\ Len(memoryOp.operands) = 1
        /\ \/ hasNonTrivialLayout(memoryOp.layout)
           \/ /\ memoryOp.layout = "none"
              /\ Len(memoryOp.map.results) = MaxResults}

\* What the matchers find under a loop besides its loads and stores:
\* nothing, an affine.if, an operation with regions that is neither an
\* affine.if nor an affine.for, a vector transfer.
Constructs == {"none", "if", "region", "transfer"}

\* The bodies: a construct, up to two loads or stores in the order of the
\* walk, and whether the last of them has a vector as element type.  A body
\* with a construct has one access at most.
LoopBodies ==
    {b \in [construct : Constructs,
            accesses : UNION {[1..n -> BodyAccesses] : n \in 0..2},
            vector : BOOLEAN] :
        /\ b.vector => b.accesses # << >>
        /\ b.construct # "none" => Len(b.accesses) <= 1}

\* The test of line 403 left out.
variesElsewhereNever(memRefDim, thisOpMemRefDim) == FALSE

\* isVectorizableLoopBody, line 403: the access varies along another
\* dimension than the accesses before it.
variesElsewhere(memRefDim, thisOpMemRefDim) ==
    memRefDim # -1 /\ memRefDim # thisOpMemRefDim

\* What isVectorizableLoopBody leaves: the value returned and *memRefDim.
Vectorizable(ret, memRefDim) == [ret |-> ret, memRefDim |-> memRefDim]

RECURSIVE overLoadsAndStores(_, _, _, _, _)
\* The loop of lines 371-385 from the i-th load or store on and line 386,
\* isVectorizableOp being the function of lines 392-408 (withFun) or null.
overLoadsAndStores(loop, body, i, memRefDim, withFun) ==
    IF i > Len(body.accesses) THEN {Vectorizable("true", memRefDim)}
    ELSE IF body.vector /\ i = Len(body.accesses)
         THEN {Vectorizable("false", memRefDim)}
    ELSE IF ~withFun
         THEN overLoadsAndStores(loop, body, i + 1, memRefDim, withFun)
    ELSE UNION {
           IF c.ret = "fault" THEN {Vectorizable("fault", memRefDim)}
           ELSE IF c.memRefDim # -1 /\ variesElsewhere(memRefDim, c.memRefDim)
                THEN {Vectorizable("false", memRefDim)}
           ELSE LET dim == IF c.memRefDim # -1 THEN c.memRefDim
                           ELSE memRefDim
                IN  IF c.ret = "false" THEN {Vectorizable("false", dim)}
                    ELSE overLoadsAndStores(loop, body, i + 1, dim, withFun) :
             c \in isContiguousAccess(getInductionVar(loop),
                                      body.accesses[i], -1)}

\* isVectorizableLoopBodyWithOpCond, lines 342-387
isVectorizableLoopBodyWithOpCond(loop, body, memRefDim, withFun) ==
    IF body.construct # "none" THEN {Vectorizable("false", memRefDim)}
    ELSE overLoadsAndStores(loop, body, 1, memRefDim, withFun)

\* isVectorizableLoopBody(loop, &memRefDim, matcher), which sets *memRefDim
\* to -1 and hands in the function of lines 392-408, and
\* isVectorizableLoopBody(loop, matcher), which hands in none.
IsVectorizableLoopBody ==
    /\ pc = "idle"
    /\ \E loop \in ForOps, body \in LoopBodies, withMemRefDim \in BOOLEAN :
          /\ input' = [fn |-> "isVectorizableLoopBody", loop |-> loop,
                       body |-> body, withMemRefDim |-> withMemRefDim]
          /\ \E r \in isVectorizableLoopBodyWithOpCond(loop, body, -1,
                                                       withMemRefDim) :
                call' = [fn |-> "isVectorizableLoopBody", v |-> 0,
                         region |-> 0, ret |-> r.ret,
                         memRefDim |-> r.memRefDim]
    /\ pc' = "done"
    /\ UNCHANGED <<ir, map, operands, dims, syms>>

\* The nests asked about: no loop bounded by another, or every loop bounded
\* by the induction variable of the loop around it.
InitContiguous ==
    /\ ir \in {x \in AccessIRs :
                  /\ x.vals[MaxDepth] = CHOOSE a \in FirstApplies : TRUE
                  /\ x.vals[MaxDepth + 1] = CHOOSE a \in SecondApplies : TRUE
                  /\ \/ \A r \in Regions : x.bounds[r] = << >>
                     \/ \A r \in ForOps \ {2} : x.bounds[r] = <<r - 2>>}
    /\ call = NoCall
    /\ Idle

NextContiguous == IsContiguousAccess \/ IsVectorizableLoopBody

SpecContiguous == InitContiguous /\ [][NextContiguous]_vars

\* ------------------------------------------------------------ the shifts
\* The longest loop body tried.
MaxBody == MaxOperands + 1

RECURSIVE bodiesFrom(_, _)
\* The operations a..n of a body of n operations: for each, in the order of
\* the block, the users of its results, each named by its ancestor in the
\* body (the number of that operation, its place in the block) or by 0 when
\* it has none.  A user comes after the definition, so its ancestor does.
bodiesFrom(a, n) ==
    IF a > n THEN {<< >>}
    ELSE {<<users>> \o rest :
             users \in SUBSET ({0} \cup (a + 1)..n),
             rest \in bodiesFrom(a + 1, n)}

Bodies == UNION {bodiesFrom(1, n) : n \in 1..MaxBody}

\* The shifts handed in: one for each operation, or one too many.
ShiftsFor(body) ==
    [1..Len(body) -> {0, 1}] \cup {[i \in 1..(Len(body) + 1) |-> 0]}

\* The place in the block of the operation seen in round it, with the
\* block read forwards.
indexForwards(size, it) == it

\* isOpwiseShiftValid, line 434: the place in the block (from 0) of the
\* operation seen in round it (from 0) of the loop, which reads the block
\* backwards.
indexOfRound(size, it) == size - it - 1

\* isOpwiseShiftValid in progress: the shifts recorded and the round.
Shifting(forBodyShift, it) ==
    [fn |-> "isOpwiseShiftValid", v |-> 0, region |-> 0, ret |-> "none",
     forBodyShift |-> forBodyShift, it |-> it]

\* isOpwiseShiftValid(forOp, shifts) is called, lines 423-428.
IsOpwiseShiftValid ==
    /\ pc = "idle"
    /\ \E body \in Bodies : \E shifts \in ShiftsFor(body) :
          /\ input' = [fn |-> "isOpwiseShiftValid", body |-> body,
                       shifts |-> shifts]
          /\ IF Len(shifts) = Len(body)
             THEN /\ pc' = "shifts"
                  /\ call' = Shifting(<< >>, 0)
             ELSE /\ pc' = "fault"
                  /\ call' = Returned("isOpwiseShiftValid", "fault")
    /\ UNCHANGED <<ir, map, operands, dims, syms>>

\* One round of the loop of lines 429-453, and line 454 after the last: the
\* shift of the operation is recorded, then the users of its results are
\* looked up, in the order of the use lists, whatever it is; the first one
\* whose ancestor has no shift recorded fails the assert, the first one
\* whose ancestor has another shift returns false.
ShiftRound ==
    /\ pc = "shifts"
    /\ IF call.it >= Len(input.body)
       THEN /\ pc' = "done"
            /\ call' = Returned("isOpwiseShiftValid", "true")
       ELSE LET index == indexOfRound(Len(input.shifts), call.it)
                op == index + 1
                shift == input.shifts[index + 1]
                recorded == DOMAIN call.forBodyShift \cup {op}
                forBodyShift ==
                    [o \in recorded |->
                        IF o \in DOMAIN call.forBodyShift
                        THEN call.forBodyShift[o] ELSE shift]
                ancOps == input.body[op] \ {0}
                unknown == {ancOp \in ancOps : ancOp \notin recorded}
                shifted == {ancOp \in ancOps \cap recorded :
                               shift # forBodyShift[ancOp]}
            IN  \/ /\ unknown # {}
                   /\ pc' = "fault"
                   /\ call' = Returned("isOpwiseShiftValid", "fault")
                \/ /\ shifted # {}
                   /\ pc' = "done"
                   /\ call' = Returned("isOpwiseShiftValid", "false")
                \/ /\ unknown = {} /\ shifted = {}
                   /\ pc' = pc
                   /\ call' = Shifting(forBodyShift, call.it + 1)
    /\ UNCHANGED <<ir, input, map, operands, dims, syms>>

InitShifts ==
    /\ ir = TwoLoopsIR
    /\ call = NoCall
    /\ Idle

NextShifts == IsOpwiseShiftValid \/ ShiftRound

SpecShifts == InitShifts /\ [][NextShifts]_vars

\* ------------------------------------------------------------ the stride
\* An operation of the body of a loop that uses its induction variable.
UserOf(operand) == [name |-> "user", map |-> NoMap, operand |-> operand]

\* The affine.apply of the map (d0) -> (d0 * step) to the induction variable.
ScaledUp(step) ==
    [name |-> "affine.apply",
     map |-> AffineMap(1, 0, <<AffineMul(AffineDimExpr(0), AffineConstantExpr(step))>>),
     operand |-> "iv"]

\* The bodies of the loops rewritten: some uses of the induction variable.
StrideBodies == {[i \in 1..n |-> UserOf("iv")] : n \in 0..MaxOperands}

\* AffineForOp::getConstantLowerBound, getConstantUpperBound
getConstantBound(bound) == bound.map.results[1][2]

\* AffineForOp::setConstantUpperBound
constantBound(value) == [map |-> getConstantAffineMap(value), operands |-> << >>]

\* lb + ceilDiv(ub - lb, step) in the integers of the machine: a signed
\* overflow is undefined and can leave any.
scaledUpperBound(lb, ub, step) ==
    UNION {LET bound == lb + ceilDiv(span, step)
           IN  IF bound \in Ints THEN {bound} ELSE Ints :
             span \in loopSpanOf(lb, ub)}

\* replaceAllUsesExcept(iv, ivScaleUp, {ivScaleUp}) after ivScaleUp was put
\* at the front of the body.
scaledUses(body, step) ==
    <<ScaledUp(step)>> \o [i \in 1..Len(body) |-> UserOf("ivScaleUp")]

\* What AffineStrideNormalizer::matchAndRewrite leaves of the loop.
Normalized(ret, forOp) ==
    [fn |-> "AffineStrideNormalizer", v |-> 0, region |-> 0, ret |-> ret,
     forOp |-> forOp]

\* AffineStrideNormalizer::matchAndRewrite
MatchAndRewrite ==
    /\ pc = "idle"
    /\ \E loop \in Loops : \E body \in StrideBodies :
          /\ input' = [fn |-> "normalize", map |-> NoMap, operands |-> << >>,
                       forOp |-> [lb |-> loop.lb, ub |-> loop.ub,
                                  step |-> loop.step, body |-> body]]
          /\ IF loop.step = 1 \/ ~hasConstantBounds(loop)
             THEN call' = Normalized("failure", input'.forOp)
             ELSE \E bound \in scaledUpperBound(getConstantBound(loop.lb),
                                                getConstantBound(loop.ub),
                                                loop.step) :
                     call' = Normalized("success",
                                 [lb |-> loop.lb, ub |-> constantBound(bound),
                                  step |-> 1,
                                  body |-> scaledUses(body, loop.step)])
    /\ pc' = "done"
    /\ UNCHANGED <<ir, map, operands, dims, syms>>

InitStride ==
    /\ ir = TwoLoopsIR
    /\ call = NoCall
    /\ Idle

NextStride == MatchAndRewrite

SpecStride == InitStride /\ [][NextStride]_vars

\* ------------------------------------------------------------- the claims
\* The induction variable of an affine.for is argument 0 of its body, the
\* arguments after it carry the iter_args.
isInductionVar(v) ==
    /\ isBlockArgument(v)
    /\ ParentOp(v) # 0
    /\ OwnerKind(ParentOp(v)) = "for"
    /\ Val(v).argNo = 0

QV == Val(call.v)

DimOperands(v) == SubSeq(Val(v).operands, 1, Val(v).numDims)

SymOperands(v) ==
    SubSeq(Val(v).operands, Val(v).numDims + 1, Len(Val(v).operands))

TopLevelInQueried == call.region # NullRegion /\ QV.at = call.region

\* C1: whatever the value and the scope (null included), a value that
\* isValidSymbol accepts is accepted by isValidDim too.
C1_SymbolIsDim ==
    /\ call.fn = "isValidDim" /\ isValidSymbol(call.v, call.region) = "true"
            => call.ret = "true"
    /\ call.fn = "isValidSymbol" /\ call.ret = "true"
            => isValidDim(call.v, call.region) = "true"

C1_Witness ==
    /\ call.fn = "isValidDim"
    /\ call.ret = "true"
    /\ isValidSymbol(call.v, call.region) = "true"
    /\ QV.kind = "arg"
    /\ call.region # QV.at

\* C2 as claimed: an apply that is no valid symbol is a valid dimension iff
\* its dimension operands are valid dimensions and its symbol operands are
\* valid symbols.
C2_Claimed ==
    /\ call.fn = "isValidDim"
    /\ QV.kind = "apply"
    /\ isValidSymbol(call.v, call.region) # "true"
    => (call.ret = "true" <=>
            /\ \A i \in 1..Len(DimOperands(call.v)) :
                   isValidDim(DimOperands(call.v)[i], call.region) = "true"
            /\ \A i \in 1..Len(SymOperands(call.v)) :
                   isValidSymbol(SymOperands(call.v)[i], call.region) = "true")

\* C2 as amended: an apply that is no valid symbol is a valid dimension iff
\* every operand of it, in dimension or in symbol position, is a valid
\* dimension.
C2_ApplyDim ==
    /\ call.fn = "isValidDim"
    /\ QV.kind = "apply"
    /\ isValidSymbol(call.v, call.region) # "true"
    => (call.ret = "true" <=>
            \A i \in 1..Len(QV.operands) :
                isValidDim(QV.operands[i], call.region) = "true")

C2_Witness ==
    /\ call.fn = "isValidDim"
    /\ QV.kind = "apply"
    /\ isValidSymbol(call.v, call.region) = "false"
    /\ call.ret = "true"
    /\ Len(SymOperands(call.v)) > 0
    /\ isValidSymbol(SymOperands(call.v)[1], call.region) = "false"

\* C3: an index block argument that is no valid symbol is a valid dimension
\* iff it is the induction variable of an affine.for / affine.parallel.
C3_Claimed ==
    /\ call.fn = "isValidDim"
    /\ QV.kind = "arg"
    /\ QV.isIndex
    /\ isValidSymbol(call.v, call.region) # "true"
    => (call.ret = "true" <=> isInductionVar(call.v))

\* C4: for a block argument that is not top-level in the scope, the answer
\* is that for the region around the scope's owner when the owner is not
\* isolated from above, and false when it is, when the owner has no region
\* around it, and when the scope is null.
C4_UpwardWalk ==
    /\ call.fn = "isValidSymbol"
    /\ QV.kind = "arg"
    /\ ~TopLevelInQueried
    => /\ call.region = NullRegion => call.ret = "false"
       /\ call.region # NullRegion /\ ir.own[call.region] # "none"
            => IF ir.own[call.region] \in {"func", "iso"} \/ call.region = 1
               THEN call.ret = "false"
               ELSE call.ret = isValidSymbol(call.v, call.region - 1)

C4_Witness ==
    /\ call.fn = "isValidSymbol"
    /\ QV.kind = "arg"
    /\ call.region > 1
    /\ QV.at # call.region
    /\ ir.own[call.region] \notin {"func", "iso"}
    /\ call.ret = "true"

\* C5 as claimed: an apply is a valid symbol iff all its operands are.
C5_Claimed ==
    /\ call.fn = "isValidSymbol"
    /\ QV.kind = "apply"
    => (call.ret = "true" <=>
            \A i \in 1..Len(QV.operands) :
                isValidSymbol(QV.operands[i], call.region) = "true")

\* C5 as amended: an apply that is top-level in the scope is a valid symbol;
\* any other apply is a valid symbol iff all its operands are.
C5_ApplySymbol ==
    /\ call.fn = "isValidSymbol"
    /\ QV.kind = "apply"
    => IF TopLevelInQueried THEN call.ret = "true"
       ELSE (call.ret = "true" <=>
                \A i \in 1..Len(QV.operands) :
                    isValidSymbol(QV.operands[i], call.region) = "true")

C5_Witness ==
    /\ call.fn = "isValidSymbol"
    /\ QV.kind = "apply"
    /\ ~TopLevelInQueried
    /\ QV.numDims > 0
    /\ Val(QV.operands[1]).kind = "arg"
    /\ call.ret = "true"

\* C6 as claimed: a dim that is not top-level in the scope is a valid symbol
\* if its memref is top-level, else only if the dimension is dynamic, the
\* memref comes from a view / subview / alloc and the size operand is a
\* valid symbol; a static dimension of a memref that is not top-level is
\* none.
C6_Claimed ==
    /\ call.fn = "isValidSymbol"
    /\ QV.kind = "dim"
    /\ ~TopLevelInQueried
    => LET memref == QV.operands[1]
       IN  call.ret = "true" <=>
               \/ isTopLevelValue(memref)
               \/ /\ QV.idx = "dynamic"
                  /\ Val(memref).kind \in {"alloc", "view", "subview"}
                  /\ isValidSymbol(Val(memref).operands[1], call.region) = "true"

\* C6 as amended: such a dim is a valid symbol exactly if its memref is
\* top-level, or the memref comes from a view / subview / alloc, the index
\* is constant and the dimension is static or has a size operand that is a
\* valid symbol.
C6_DimSymbol ==
    /\ call.fn = "isValidSymbol"
    /\ QV.kind = "dim"
    /\ ~TopLevelInQueried
    => LET memref == QV.operands[1]
       IN  call.ret = "true" <=>
               \/ isTopLevelValue(memref)
               \/ /\ Val(memref).kind \in {"alloc", "view", "subview"}
                  /\ \/ QV.idx = "static"
                     \/ /\ QV.idx = "dynamic"
                        /\ isValidSymbol(Val(memref).operands[1], call.region)
                               = "true"

C6_Witness ==
    /\ call.fn = "isValidSymbol"
    /\ QV.kind = "dim"
    /\ ~TopLevelInQueried
    /\ ~isTopLevelValue(QV.operands[1])
    /\ QV.idx = "static"
    /\ call.ret = "true"

\* The scope is the region of an affine loop or conditional nested, at any
\* depth, beneath the region the queried value sits in, whose owner has the
\* AffineScope trait.
QueriedInScopeAbove ==
    /\ QV.at >= 1
    /\ ir.own[QV.at] \in {"func", "scope"}
    /\ call.region >= QV.at
    /\ call.region > QV.at => ir.own[call.region] \in {"for", "other"}

RECURSIVE RootedIn(_, _)
\* v, and every operand an apply or a dim computes it from, is top-level
\* in region r.
RootedIn(v, r) ==
    /\ Val(v).at = r
    /\ Val(v).kind \in {"apply", "dim"}
          => \A i \in 1..Len(Val(v).operands) : RootedIn(Val(v).operands[i], r)

QueriedInScopeBelow ==
    /\ QV.at >= 1
    /\ ir.own[QV.at] \in {"func", "scope"}
    /\ call.region >= 1
    /\ call.region < QV.at

\* C8 as claimed: a value that is top-level in the region of an AffineScope
\* operation is no valid symbol for any region outside that region's
\* subtree, whatever defines it.
C8_Claimed ==
    /\ call.fn = "isValidSymbol"
    /\ QueriedInScopeBelow
    => call.ret = "false"

\* C8 as amended: so it is for a block argument and for the result of an
\* operation that is no constant, apply or dim.
C8_NotSymbolOutside ==
    /\ call.fn = "isValidSymbol"
    /\ QueriedInScopeBelow
    /\ QV.kind \notin {"const", "apply", "dim"}
    => call.ret = "false"

C8_Witness ==
    /\ call.fn = "isValidSymbol"
    /\ QueriedInScopeBelow
    /\ QV.kind = "arg"
    /\ QV.isIndex
    /\ call.ret = "false"

\* C9: every call of isValidDim and isValidSymbol returns a boolean.
C9_Claimed == call.fn # "none" => call.ret \in {"true", "false"}

\* Every position an expression names is below the counts nd and ns.
RECURSIVE inRange(_, _, _)
inRange(e, nd, ns) ==
    IF e[1] = "d" THEN e[2] < nd
    ELSE IF e[1] = "s" THEN e[2] < ns
    ELSE IF e[1] = "c" THEN TRUE
    ELSE inRange(e[2], nd, ns) /\ inRange(e[3], nd, ns)

\* C10: when composeAffineMapAndOperands or canonicalizeMapAndOperands,
\* entered with as many operands as the map has inputs, returns, the operand
\* list is as long as the returned map has dimensions and symbols together,
\* and every dimension and symbol the map names has its operand: dimension i
\* the operand at i, symbol j the operand at numDims + j.
C10_OperandCount ==
    pc = "done" =>
        /\ Len(operands) = map.numDims + map.numSymbols
        /\ \A i \in 1..Len(map.results) :
               inRange(map.results[i], map.numDims, map.numSymbols)

\* A composition of a map over twice the same apply returned: operands were
\* appended, promoted to symbols and merged, and dimensions and symbols
\* are both left.
C10_Witness ==
    /\ pc = "done"
    /\ input.fn = "compose"
    /\ Len(input.operands) = 2
    /\ isApplyResult(input.operands[1])
    /\ input.operands[2] = input.operands[1]
    /\ map.numSymbols > input.map.numSymbols
    /\ map.numDims > 0
    /\ Len(operands) = map.numDims + map.numSymbols

\* Every position the results of m name is below m's counts.
mapInRange(m) ==
    \A i \in 1..Len(m.results) : inRange(m.results[i], m.numDims, m.numSymbols)

\* C11: every map the composer holds, the working map after each
\* substitution of the loop as well as the map returned, names only
\* dimensions below numDims and symbols below numSymbols.
C11_Claimed == pc \in {"compose", "done"} => mapInRange(map)

\* From slots to slots2 nothing is taken away, a null entry stays null and
\* any other entry stays or becomes null.
OnlyRetired(slots, slots2) ==
    /\ Len(slots) <= Len(slots2)
    /\ \A i \in 1..Len(slots) :
           IF slots[i] = 0 THEN slots2[i] = 0 ELSE slots2[i] \in {slots[i], 0}

\* The entries that go from an apply result to null.
Retired(slots, slots2) ==
    {i \in 1..Len(slots) : isApplyResult(slots[i]) /\ slots2[i] = 0}

\* No null entry is named by the working map.
NoRetiredNamed ==
    /\ \A i \in 1..Len(dims) :
           dims[i] = 0 => ~mapIsFunctionOf(map, AffineDimExpr(i - 1))
    /\ \A i \in 1..Len(syms) :
           syms[i] = 0 => ~mapIsFunctionOf(map, AffineSymbolExpr(i - 1))

\* C12: the loop of composeAffineMapAndOperands ends; every round of it
\* retires exactly one entry, one an apply defines, a retired entry stays
\* null, and when the loop is over the working map names no retired entry
\* (the assert of the tail holds).
C12_Terminates ==
    /\ [][/\ OnlyRetired(dims, dims')
          /\ OnlyRetired(syms, syms')
          /\ pc = "compose" /\ pc' = "compose"
                => Cardinality(Retired(dims, dims'))
                       + Cardinality(Retired(syms, syms')) = 1]_vars
    /\ [](pc # "fault" /\ (pc = "compose" => NoRetiredNamed))
    /\ (pc = "compose" ~> pc = "done")

\* The loop ended after it retired an apply and then the apply that one was
\* computed from.
C12_Witness ==
    /\ pc = "done"
    /\ input.fn = "compose"
    /\ \E i \in 1..Len(dims) : dims[i] = 0 /\ i > Len(input.operands)

\* The pair composeAffineMapAndOperands leaves when it takes the first
\* position in every round, for the input of the call in progress.
LowestFirst == composeAffineMapAndOperands(input.map, input.operands)

\* C13: whatever positions the loop takes, the composition ends with the map
\* and the operand list it ends with when it takes the first position in
\* every round.
C13_Claimed ==
    pc = "done" /\ input.fn = "compose"
        => \E first \in {LowestFirst} :
              /\ first.pc = "done"
              /\ map = first.map
              /\ operands = first.operands

\* The place of a value in a list that holds it.
indexOf(list, v) ==
    CHOOSE i \in 1..Len(list) : list[i] = v /\ \A j \in 1..(i - 1) : list[j] # v

\* The map m over the operands mine, rewritten over the operands theirs.
renumbered(m, mine, theirs) ==
    replaceDimsAndSymbols(m,
        [i \in 1..m.numDims |->
            AffineDimExpr(indexOf(SubSeq(theirs, 1, m.numDims), mine[i]) - 1)],
        [i \in 1..m.numSymbols |->
            AffineSymbolExpr(indexOf(SubSeq(theirs, m.numDims + 1, Len(theirs)),
                                     mine[m.numDims + i]) - 1)],
        m.numDims, m.numSymbols)

\* C13 (amended): whatever positions the loop takes, the composition ends
\* with the map and operands it ends with when it takes the first position in
\* every round, up to the order of the dimension operands and of the symbol
\* operands: as many of each, the same values, and the same map once its
\* inputs are renumbered to the other order.
C13_SameUpToOrder ==
    pc = "done" /\ input.fn = "compose"
        => \E first \in {LowestFirst} :
              /\ first.pc = "done"
              /\ map.numDims = first.map.numDims
              /\ map.numSymbols = first.map.numSymbols
              /\ Len(operands) = Len(first.operands)
              /\ Len(operands) = map.numDims + map.numSymbols
              /\ {operands[i] : i \in 1..map.numDims}
                     = {first.operands[i] : i \in 1..map.numDims}
              /\ {operands[i] : i \in (map.numDims + 1)..Len(operands)}
                     = {first.operands[i] :
                            i \in (map.numDims + 1)..Len(operands)}
              /\ renumbered(map, operands, first.operands) = first.map

\* The loop took a position that was not the first one and ended with the
\* operands in another order.
C13_Witness ==
    /\ pc = "done"
    /\ input.fn = "compose"
    /\ Len(operands) = 2
    /\ operands # LowestFirst.operands

\* What canonicalizePromotedSymbols leaves of the map and operands handed in
\* when it promotes the dimensions whose operand is in promoted: the operands
\* of the other dimensions in their order, the symbol operands, then the
\* promoted operands in their order, and the map with every dimension renamed
\* to its new place.
PromotionOf(promoted) ==
    LET nd == input.map.numDims
        ns == input.map.numSymbols
        keptDims == SelectSeq([i \in 1..nd |-> i],
                              LAMBDA i : input.operands[i] \notin promoted)
        newSyms == SelectSeq([i \in 1..nd |-> i],
                             LAMBDA i : input.operands[i] \in promoted)
        before(list, i) == Cardinality({j \in 1..Len(list) : list[j] < i})
        dimRemapping ==
            [i \in 1..nd |->
                IF input.operands[i] \in promoted
                THEN AffineSymbolExpr(ns + before(newSyms, i))
                ELSE AffineDimExpr(before(keptDims, i))]
    IN  /\ map.numDims = Len(keptDims)
        /\ map.numSymbols = ns + Len(newSyms)
        /\ operands = [i \in 1..Len(keptDims) |-> input.operands[keptDims[i]]]
                          \o SubSeq(input.operands, nd + 1, nd + ns)
                          \o [i \in 1..Len(newSyms) |-> input.operands[newSyms[i]]]
        /\ map.results =
               [r \in 1..Len(input.map.results) |->
                   replaceDimsAndSymbolsExpr(input.map.results[r], dimRemapping,
                       [i \in 1..ns |-> AffineSymbolExpr(i - 1)])]

\* C14: the dimensions canonicalizePromotedSymbols promotes are the ones
\* whose operand is a constant or the result of an apply of such operands.
C14_Claimed ==
    pc = "remap"
        => PromotionOf({v \in 1..Len(ir.vals) : scopeFreeSymbol(v)})

\* C14 (amended): the dimensions canonicalizePromotedSymbols promotes are
\* the ones whose operand isValidSymbol(Value) accepts, the values accepted
\* for the place of their definition among them; the promoted operands come
\* after the symbol operands there were, in their order, and the other
\* dimensions are renumbered densely in theirs.
C14_PromotesValidSymbols ==
    pc = "remap"
        => PromotionOf({v \in 1..Len(ir.vals) : isValidSymbolAnywhere(v) = "true"})

\* A parameter of the function, a symbol only by its place, was promoted
\* from between two dimensions that stay.
C14_Witness ==
    /\ pc = "remap"
    /\ input.map.numDims >= 2
    /\ \E i \in 1..input.map.numDims :
          /\ isTopLevelValue(input.operands[i])
          /\ isBlockArgument(input.operands[i])
          /\ operands[Len(operands)] = input.operands[i]
    /\ map.numDims >= 1

\* The canonicalization has returned.
Canonicalized == pc = "done" /\ input.fn = "canonicalize"

RECURSIVE isSubsequence(_, _)
\* The list a is the list b with some of its entries left out.
isSubsequence(a, b) ==
    IF a = << >> THEN TRUE
    ELSE IF b = << >> THEN FALSE
    ELSE IF a[1] = b[1] THEN isSubsequence(Tail(a), Tail(b))
    ELSE isSubsequence(a, Tail(b))

InputDimOperands == SubSeq(input.operands, 1, input.map.numDims)

InputSymOperands ==
    SubSeq(input.operands, input.map.numDims + 1, Len(input.operands))

DimOperandsLeft == SubSeq(operands, 1, map.numDims)

SymOperandsLeft == SubSeq(operands, map.numDims + 1, Len(operands))

NamedAsDim(v) ==
    \E j \in 1..input.map.numDims :
        /\ input.operands[j] = v
        /\ mapIsFunctionOf(input.map, AffineDimExpr(j - 1))

\* The input map names a symbol bound to the value v.
NamedAsSymbol(v) ==
    \E j \in 1..input.map.numSymbols :
        /\ input.operands[input.map.numDims + j] = v
        /\ mapIsFunctionOf(input.map, AffineSymbolExpr(j - 1))

allDifferent(list) ==
    \A i, j \in 1..Len(list) : list[i] = list[j] => i = j

\* Where a symbol bound to the value v is to be found in the map returned:
\* the literal of a constant, otherwise the symbol bound to v.
placeOfSymbol(v) ==
    IF isConstant(v) THEN AffineConstantExpr(Val(v).cst)
    ELSE IF \E i \in 1..Len(SymOperandsLeft) : SymOperandsLeft[i] = v
         THEN AffineSymbolExpr(indexOf(SymOperandsLeft, v) - 1)
    ELSE NoExpr

\* The same for a dimension bound to v: promoted if v is a valid symbol.
placeOfDim(v) ==
    IF isValidSymbolAnywhere(v) = "true" THEN placeOfSymbol(v)
    ELSE IF \E i \in 1..Len(DimOperandsLeft) : DimOperandsLeft[i] = v
         THEN AffineDimExpr(indexOf(DimOperandsLeft, v) - 1)
    ELSE NoExpr

\* Every operand the input map names, unless a constant, is among the
\* operands returned, as a symbol or as a dimension.
NamedOperandsLeft ==
    \A j \in 1..Len(input.operands) :
        LET v == input.operands[j]
        IN  IF j > input.map.numDims
            THEN NamedAsSymbol(v) /\ ~isConstant(v)
                     => \E i \in 1..Len(SymOperandsLeft) : SymOperandsLeft[i] = v
            ELSE IF isValidSymbolAnywhere(v) = "true"
            THEN NamedAsDim(v) /\ ~isConstant(v)
                     => \E i \in 1..Len(SymOperandsLeft) : SymOperandsLeft[i] = v
            ELSE NamedAsDim(v)
                     => \E i \in 1..Len(DimOperandsLeft) : DimOperandsLeft[i] = v

\* C16: the canonicalization returns no value twice among the dimension
\* operands and none twice among the symbol operands, and the map it returns
\* is the input map with every input it names renamed to the one place its
\* operand has in the operands returned.
C16_NoDuplicates ==
    Canonicalized /\ input.operands # << >>
        => /\ allDifferent(DimOperandsLeft)
           /\ allDifferent(SymOperandsLeft)
           /\ NamedOperandsLeft
           /\ map.results =
                  [r \in 1..Len(input.map.results) |->
                      replaceDimsAndSymbolsExpr(input.map.results[r],
                          [j \in 1..input.map.numDims |->
                              placeOfDim(input.operands[j])],
                          [j \in 1..input.map.numSymbols |->
                              placeOfSymbol(input.operands[input.map.numDims + j])])]

\* A map that named two dimensions bound to one value, no symbol, was
\* canonicalized.
C16_Witness ==
    /\ Canonicalized
    /\ input.map.numDims >= 2
    /\ input.operands[1] = input.operands[2]
    /\ mapIsFunctionOf(input.map, AffineDimExpr(0))
    /\ mapIsFunctionOf(input.map, AffineDimExpr(1))
    /\ map.numDims = 1

RECURSIVE valueOf(_, _, _)
\* The value of an expression for given values of its dimensions and symbols.
valueOf(e, dimValues, symValues) ==
    IF e[1] = "d" THEN dimValues[e[2] + 1]
    ELSE IF e[1] = "s" THEN symValues[e[2] + 1]
    ELSE IF e[1] = "c" THEN e[2]
    ELSE IF e[1] = "+" THEN valueOf(e[2], dimValues, symValues)
                                + valueOf(e[3], dimValues, symValues)
    ELSE valueOf(e[2], dimValues, symValues) * valueOf(e[3], dimValues, symValues)

\* C17: the canonicalization returns no operand that is a constant; handed
\* constants only, it returns no operand and a map without inputs whose
\* results are the values of the input results at the constants (the double
\* of a dimension bound to the constant c becomes the constant 2 * c).
C17_ConstantsFolded ==
    Canonicalized
        => /\ \A i \in 1..Len(operands) : ~isConstant(operands[i])
           /\ /\ input.operands # << >>
              /\ \A j \in 1..Len(input.operands) : isConstant(input.operands[j])
              => /\ operands = << >>
                 /\ map = AffineMap(0, 0,
                        [r \in 1..Len(input.map.results) |->
                            AffineConstantExpr(
                                valueOf(input.map.results[r],
                                    [j \in 1..Len(InputDimOperands) |->
                                        Val(InputDimOperands[j]).cst],
                                    [j \in 1..Len(InputSymOperands) |->
                                        Val(InputSymOperands[j]).cst]))])

\* The double of a dimension bound to a constant other than zero was
\* canonicalized.
C17_Witness ==
    /\ Canonicalized
    /\ input.map = AffineMap(1, 0, <<AffineMul(AffineDimExpr(0),
                                               AffineConstantExpr(2))>>)
    /\ isConstant(input.operands[1])
    /\ Val(input.operands[1]).cst # 0
    /\ map = AffineMap(0, 0, <<AffineConstantExpr(2 * Val(input.operands[1]).cst)>>)
    /\ operands = << >>

C19_FailureIffUnchanged ==
    /\ pc \in {"idle", "failure", "success"}
    /\ pc # "idle"
         => \E r \in {composeAffineMapAndOperands(input.map, input.operands)} :
               /\ pc = "failure"
                     <=> r.map = input.map /\ r.operands = input.operands
               /\ pc = "failure"
                     => map = input.map /\ operands = input.operands
               /\ pc = "success" => map = r.map /\ operands = r.operands

\* The pattern returned failure on an instruction with two map operands.
C19_Witness ==
    /\ pc = "failure"
    /\ input.fn = "SimplifyAffineOp::matchAndRewrite"
    /\ Len(input.operands) = 2
    /\ Len(input.map.results) >= 1

\* The trip count map of a loop with constant bounds was built.
TripCountBuilt == pc = "done" /\ input.fn = "buildTripCountMapAndOperands"

\* C20: for constant bounds lb and ub and a positive step the trip count map
\* has no inputs and the one result ceil(max(0, ub - lb) / step), and there
\* are no operands.
C20_Claimed ==
    TripCountBuilt
        => /\ operands = << >>
           /\ map = AffineMap(0, 0,
                  <<AffineConstantExpr(
                      LET span == IF input.ub - input.lb < 0 THEN 0
                                  ELSE input.ub - input.lb
                      IN  (span + input.step - 1) \div input.step)>>)

\* getConstantTripCount returned.
ConstantTripCountReturned ==
    pc = "done" /\ input.fn = "getConstantTripCount"

RECURSIVE minOfConstants(_)
\* The least of the constants res holds, as integers.
minOfConstants(res) ==
    IF Len(res) = 1 THEN res[1][2]
    ELSE LET rest == minOfConstants(Tail(res))
         IN  IF res[1][2] < rest THEN res[1][2] ELSE rest

\* C21: getConstantTripCount returns unknown when there is no trip count map
\* or when a result of the map is not a constant, and otherwise the minimum,
\* as integers, of the constant results, negative ones included.
C21_Claimed ==
    ConstantTripCountReturned
        => IF map = NullAffineMap THEN call.ret = None
           ELSE IF \E i \in 1..Len(map.results) : ~isConstantExpr(map.results[i])
                THEN call.ret = None
           ELSE call.ret = Some(minOfConstants(map.results))

\* getLargestDivisorOfTripCount returned.
LargestDivisorReturned ==
    pc = "done" /\ input.fn = "getLargestDivisorOfTripCount"

\* n divides every one of the numbers of the sequence ns.
dividesAll(n, ns) == \A i \in 1..Len(ns) : ns[i] % n = 0

\* The greatest common divisor of the numbers of ns, not all of them zero.
gcdOf(ns) ==
    CHOOSE g \in 1..UIntMax :
        /\ dividesAll(g, ns)
        /\ \A h \in 1..UIntMax : dividesAll(h, ns) => h <= g

\* The results of the trip count map that are constants, as integers.
ConstantResults ==
    LET at == Where([i \in 1..Len(map.results) |->
                        isConstantExpr(map.results[i])])
    IN  [k \in 1..Len(at) |-> map.results[at[k]][2]]

\* The loop asked about runs from the constant 0 to the constant 0.
FromZeroToZero ==
    /\ input.lb.map.results = <<AffineConstantExpr(0)>>
    /\ input.ub.map.results = <<AffineConstantExpr(0)>>

InvariantAccessReturned == pc = "done" /\ input.fn = "isInvariantAccess"

RECURSIVE reachableApplies(_)
\* The applies reachable from the values of the set vs.
reachableApplies(vs) ==
    LET more == {v \in 1..Len(ir.vals) :
                    /\ Val(v).kind = "apply"
                    /\ \/ v \in vs
                       \/ \E a \in vs :
                            /\ Val(a).kind = "apply"
                            /\ \E i \in 1..Len(Val(a).operands) :
                                  Val(a).operands[i] = v}
    IN  IF more \subseteq vs THEN {v \in vs : Val(v).kind = "apply"}
        ELSE reachableApplies(vs \cup more)

\* Clause (a) for one operand and one induction variable.
indexInvariant(iv, index) ==
    LET applies == reachableApplies({index})
    IN  IF applies = {} THEN index # iv
        ELSE IF Cardinality(applies) = 1
             THEN \A a \in applies : ~valueMapIsFunctionOf(a, iv)
        ELSE FALSE

RECURSIVE dependentLoops(_)
\* The loops of the set fs and every loop that has the induction variable
\* of one of them, or of one found so, among the operands of its bounds.
dependentLoops(fs) ==
    LET more == {r \in ForOps :
                    \E f \in fs : \E i \in 1..Len(ir.bounds[r]) :
                        ir.bounds[r][i] = getInductionVar(f)}
    IN  IF more \subseteq fs THEN fs ELSE dependentLoops(fs \cup more)

\* C23: isInvariantAccess(access, loop) is true exactly when clause (a)
\* holds of every operand of the access for the loop and for every loop that
\* depends on it, directly or through other loops; and every call returns.
C23_InvariantIff ==
    /\ [](InvariantAccessReturned
            => (call.ret = "true"
                  <=> \A f \in dependentLoops({input.forOp}) :
                        \A i \in 1..Len(input.operands) :
                            indexInvariant(getInductionVar(f),
                                           input.operands[i])))
    /\ (pc = "recurse" ~> pc = "done")

\* The access does not vary with the loop asked about, but with a loop that
\* has the induction variable of the first among its bound operands.
C23_Witness ==
    /\ InvariantAccessReturned
    /\ call.ret = "false"
    /\ mapOperandsInvariant(input.operands, input.forOp)

\* isContiguousAccess returned, for a memref without a layout map or with
\* the identity, an induction variable bound to at most one position and no
\* other loop bounded by it.
ContiguousAccessReturned ==
    /\ pc = "done"
    /\ input.fn = "isContiguousAccess"
    /\ ~hasNonTrivialLayout(input.memoryOp.layout)
    /\ canonicalized(input.memoryOp.operands)
    /\ depForOps(getForInductionVarOwner(input.iv)) = {}
    /\ Cardinality({j \in 1..Len(input.memoryOp.operands) :
                       input.memoryOp.operands[j] = input.iv}) <= 1

\* The coefficient of the position bound to iv in each result, 0 when iv is
\* bound to none.
CoefficientsOfIv ==
    LET m == input.memoryOp.map
        pos == positionOf(input.iv, input.memoryOp.operands)
    IN  [i \in 1..Len(m.results) |->
            IF pos = -1 THEN 0 ELSE flatAt(m, m.results[i], pos)]

\* C24: a result dimension varies exactly when the coefficient of iv in it
\* is not zero, of either sign; two varying dimensions or a varying
\* coefficient of magnitude other than 1 give false; one varying dimension i
\* of magnitude 1 gives true with memRefDim = rank - 1 - i, none gives true
\* with -1; a refused layout gives false.
C24_Claimed ==
    /\ pc = "done" /\ input.fn = "isContiguousAccess"
            /\ hasNonTrivialLayout(input.memoryOp.layout)
         => call.ret = "false"
    /\ ContiguousAccessReturned
         => LET c == CoefficientsOfIv
                varying == {i \in 1..Len(c) : c[i] # 0}
            IN  IF Cardinality(varying) >= 2 THEN call.ret = "false"
                ELSE IF \E i \in varying : c[i] \notin {-1, 1}
                     THEN call.ret = "false"
                ELSE IF varying = {}
                     THEN call.ret = "true" /\ call.memRefDim = -1
                ELSE /\ call.ret = "true"
                     /\ \A i \in varying :
                           call.memRefDim = Len(c) - 1 - (i - 1)

\* isOpwiseShiftValid was called with one shift for each operation of the
\* body.
ShiftsAsked ==
    /\ input.fn = "isOpwiseShiftValid"
    /\ Len(input.shifts) = Len(input.body)

\* C25: with one shift for each operation, isOpwiseShiftValid returns true
\* exactly when every operation has the shift of the ancestor in the body of
\* every user of its results, users without such an ancestor left aside;
\* and no lookup of the shift of an ancestor fails.
C25_ShiftValidIff ==
    ShiftsAsked
        => /\ pc # "fault"
           /\ pc = "done"
                => (call.ret = "true"
                      <=> \A a \in 1..Len(input.body) :
                            \A b \in input.body[a] :
                                b # 0 => input.shifts[a] = input.shifts[b])

\* True was returned for a body where a result has a user inside the body
\* and one outside of it.
C25_Witness ==
    /\ ShiftsAsked
    /\ pc = "done"
    /\ call.ret = "true"
    /\ \E a \in 1..Len(input.body) :
          0 \in input.body[a] /\ input.body[a] # {0}

\* A call with an operand list whose length is not the number of inputs of
\* the map has ended.
MismatchedEnded ==
    /\ pc \in {"done", "fault"}
    /\ input.fn \in {"compose", "canonicalize"}
    /\ Len(input.operands) # input.map.numDims + input.map.numSymbols

\* C26: a call of composeAffineMapAndOperands or of
\* canonicalizeMapOrSetAndOperands with an operand list of another length
\* than the number of inputs of the map ends in a failed precondition and
\* returns no pair, whether the list is empty, shorter or longer.
C26_Claimed == MismatchedEnded => pc = "fault"

\* isVectorizableLoopBody returned, no assert on the operands of an access
\* having failed.
VectorizableReturned ==
    /\ pc = "done"
    /\ input.fn = "isVectorizableLoopBody"
    /\ call.ret # "fault"

\* The body has something that rules vectorization out whatever the accesses
\* are.
RuledOut == input.body.construct # "none" \/ input.body.vector

\* What isContiguousAccess answers for the accesses of the body along the
\* induction variable of the loop.
ContiguityOfAccesses ==
    UNION {isContiguousAccess(getInductionVar(input.loop),
                              input.body.accesses[i], -1) :
              i \in 1..Len(input.body.accesses)}

\* Every access is contiguous and those that vary do so along one dimension.
ContiguousAlongOne ==
    \E along \in {ContiguityOfAccesses} :
        /\ \A c \in along : c.ret = "true"
        /\ Cardinality({c.memRefDim : c \in along} \ {-1}) <= 1

SampleValues == (-1)..2

\* The assignments of integers to the values of the IR that neither a
\* constant nor an apply defines.
Assignments ==
    [{v \in 1..Len(ir.vals) : ~isConstant(v) /\ ~isApplyResult(v)}
        -> SampleValues]

RECURSIVE valueOfOperand(_, _)
\* The value of an operand under an assignment: the result of an apply is
\* the value of its map at the values of its operands, and a constant has
\* its own value.
valueOfOperand(v, a) ==
    IF isApplyResult(v)
    THEN LET at == [i \in 1..Len(Val(v).operands) |->
                       valueOfOperand(Val(v).operands[i], a)]
         IN  valueOf(Val(v).expr, SubSeq(at, 1, Val(v).numDims),
                     SubSeq(at, Val(v).numDims + 1, Len(at)))
    ELSE IF isConstant(v) THEN Val(v).cst ELSE a[v]

\* The values of the results of a map on its operands under an assignment.
resultsAt(m, opnds, a) ==
    LET at == [i \in 1..Len(opnds) |-> valueOfOperand(opnds[i], a)]
    IN  [i \in 1..Len(m.results) |->
            valueOf(m.results[i], SubSeq(at, 1, m.numDims),
                    SubSeq(at, m.numDims + 1, Len(at)))]

\* composeAffineMapAndOperands returned.
Composed == pc = "done" /\ input.fn = "compose"

\* C28: every result of the map handed to composeAffineMapAndOperands has a
\* result of the map returned that takes the same value, on the operands
\* returned, as it does on the operands handed in, under every assignment of
\* integers to the values no apply defines; and every result of the map
\* returned is the place of one handed in, so that only duplicates are gone.
C28_SameValues ==
    Composed
        => \E place \in [1..Len(input.map.results) -> 1..Len(map.results)] :
              /\ \A j \in 1..Len(map.results) :
                    \E i \in 1..Len(input.map.results) : place[i] = j
              /\ \A a \in Assignments :
                    \E before \in {resultsAt(input.map, input.operands, a)},
                       after \in {resultsAt(map, operands, a)} :
                        \A i \in 1..Len(before) : after[place[i]] = before[i]

\* A map with two results was composed over an operand that an apply of an
\* apply defines.
C28_Witness ==
    /\ Composed
    /\ Len(input.map.results) = 2
    /\ \E i \in 1..Len(input.operands) :
          /\ isApplyResult(input.operands[i])
          /\ \E k \in 1..Len(Val(input.operands[i]).operands) :
                isApplyResult(Val(input.operands[i]).operands[k])
          /\ mapIsFunctionOf(input.map,
                 IF i <= input.map.numDims THEN AffineDimExpr(i - 1)
                 ELSE AffineSymbolExpr(i - 1 - input.map.numDims))

\* fullyComposeAffineMapAndOperands is at the test of its loop after a call
\* of composeAffineMapAndOperands has returned.
ComposedOnce == pc = "while" /\ call.invocations >= 1

\* fullyComposeAffineMapAndOperands returned.
FullyComposed == pc = "done" /\ input.fn = "fullyCompose"

\* No operand of the composition is the result of an apply.
NoApplyLeft == \A i \in 1..Len(operands) : ~isApplyResult(operands[i])

\* C29: when a call of composeAffineMapAndOperands has returned, no operand
\* left is the result of an apply; fullyComposeAffineMapAndOperands calls it
\* at most once, returns, and the operands it returns hold no result of an
\* apply.
C29_FullyComposedAtOnce ==
    /\ [](ComposedOnce => NoApplyLeft)
    /\ [](pc \in {"while", "done"} => call.invocations <= 1)
    /\ [](FullyComposed => NoApplyLeft)
    /\ (pc = "while" ~> FullyComposed)

\* fullyComposeAffineMapAndOperands returned after one call of
\* composeAffineMapAndOperands on an operand that an apply of an apply
\* defines.
C29_Witness ==
    /\ FullyComposed
    /\ call.invocations = 1
    /\ \E i \in 1..Len(input.operands) :
          /\ isApplyResult(input.operands[i])
          /\ \E k \in 1..Len(Val(input.operands[i]).operands) :
                isApplyResult(Val(input.operands[i]).operands[k])
    /\ Len(operands) > 0

\* AffineStrideNormalizer rewrote a loop.
StrideNormalized ==
    pc = "done" /\ call.fn = "AffineStrideNormalizer" /\ call.ret = "success"

\* The iterations of a loop from lb to ub by step.
iterationsOf(lb, ub, step) == IF ub > lb THEN ceilDiv(ub - lb, step) ELSE 0

\* The iterations of a loop with constant bounds.
iterations(forOp) ==
    iterationsOf(getConstantBound(forOp.lb), getConstantBound(forOp.ub), forOp.step)

\* The induction variable of a loop in iteration k, the first being 0.
inductionValue(forOp, k) == getConstantBound(forOp.lb) + k * forOp.step

\* The value an operation of the body reads in iteration k: the induction
\* variable, or the result of the apply at the front of the body.
valueRead(forOp, operation, k) ==
    IF operation.operand = "iv"
    THEN inductionValue(forOp, k)
    ELSE valueOf(forOp.body[1].map.results[1], <<inductionValue(forOp, k)>>, << >>)

\* C30: the loop AffineStrideNormalizer leaves has step 1 and the upper
\* bound lb + ceilDiv(ub - lb, s), runs as many iterations as the loop it
\* was given, and in every iteration every use of the induction variable of
\* the loop given reads the value the induction variable had there in that
\* iteration, lb + k * s.
C30_Claimed ==
    StrideNormalized
        => /\ call.forOp.step = 1
           /\ getConstantBound(call.forOp.ub)
                 = getConstantBound(input.forOp.lb)
                     + ceilDiv(getConstantBound(input.forOp.ub)
                                 - getConstantBound(input.forOp.lb),
                               input.forOp.step)
           /\ iterations(call.forOp) = iterations(input.forOp)
           /\ \A k \in 0..(iterations(input.forOp) - 1) :
              \A i \in 1..Len(input.forOp.body) :
                 valueRead(call.forOp, call.forOp.body[i + 1], k)
                     = inductionValue(input.forOp, k)

====
